---- MODULE Spec2Model ----
(***************************************************************************)
(* Model of the folder-to-manifest pipeline of VideoInterleavingHTML:      *)
(* get_folders_list.py (Discovery) and make_file_lists.py (Compaction),    *)
(* and of the worker pools of the scripts under utilities/.               *)
(*                                                                         *)
(* Strings are sequences of one-character strings, so that startswith,    *)
(* partition, isdigit, int, lower, endswith and string comparison are     *)
(* computed character by character as Python computes them.  A path is a   *)
(* sequence of components (the text between separators); a trailing        *)
(* separator shows as a trailing empty component.                          *)
(***************************************************************************)
EXTENDS Integers, Sequences, FiniteSets, TLC

VARIABLES
    dirs,          \* filesystem: directory -> number of image files, -1 = absent
    lsRev,         \* filesystem: whether os.listdir lists in descending order
    locations,     \* filesystem: lines of folder_locations.txt, or NoFile
    processed,     \* filesystem: folders_processed, NoDir or file name -> content
    pc,            \* position of write_folder_list
    folder_dict,   \* write_folder_list's folder_dict, in insertion order
    folder_counts, \* write_folder_list's folder_counts of the last gathering
    written,       \* names of the files written by the current run
    inputs,        \* paths typed at the prompt in the current run
    prev,          \* environment, inputs and output of the previous completed run
    runs,          \* number of runs started
    ninputs,       \* number of paths and ordinals typed and of edits so far
    corrupt,       \* filesystem: directories whose image 1 cannot be decoded
    writable,      \* filesystem: whether directories and files can be created
    naming,        \* filesystem: how the image files are named
    generated,     \* filesystem: generated_img_lists, NoDir or name -> content
    cpc,           \* position of process_files
    json_pairs,    \* process_files' json_pairs
    available,     \* choose_file's available_files, in listing order
    all_folders,   \* process_files' all_main_folders and all_float_folders
    hist,          \* what the current run of process_files has done so far
    image,         \* has_alpha_channel: the image it is called with
    alpha,         \* has_alpha_channel: whether it has returned, and what
    tree,          \* image_resize: the .png files below parent_dir
    total_files,   \* image_resize: the global total_files
    processed_files, \* image_resize: the global processed_files
    counter_lock,  \* image_resize: the thread that holds counter_lock, or 0
    queue,         \* image_resize: the tasks submitted to the executor
    workers,       \* image_resize: each worker thread's position
    walk,          \* image_resize: the position of main and of its os.walk
    script,        \* batch converters: which script runs
    source_files,  \* batch converters: the files of the source directory
    batch,         \* batch converters: the position of the main thread
    tasks,         \* batch converters: the tasks prepared and submitted
    output_files,  \* batch converters: the files of the output directory
    pool           \* batch converters: each pool worker's position

\* The state of Discovery and of the filesystem it reads.
dvars == <<dirs, lsRev, locations, processed, pc, folder_dict, folder_counts,
           written, inputs, prev, runs, ninputs>>

\* The state of Compaction and the parts of the filesystem added for it.
cvars == <<corrupt, writable, naming, generated, cpc, json_pairs, available,
           all_folders, hist>>

\* The state of has_alpha_channel checked on its own.
avars == <<image, alpha>>

\* The state of image_resize.py.
rvars == <<tree, total_files, processed_files, counter_lock, queue, workers,
           walk>>

\* The state of makeWebp.py and resizeToWebpWithAlpha.py.
wvars == <<script, source_files, batch, tasks, output_files, pool>>

\* The state of the functions and scripts checked on their own.
uvars == <<avars, rvars, wvars>>

vars == <<dirs, lsRev, locations, processed, pc, folder_dict, folder_counts,
          written, inputs, prev, runs, ninputs, corrupt, writable, naming,
          generated, cpc, json_pairs, available, all_folders, hist, image,
          alpha, tree, total_files, processed_files, counter_lock, queue,
          workers, walk, script, source_files, batch, tasks, output_files,
          pool>>

(* ------------------------------ bounds --------------------------------- *)

\* The most worker threads of a pool.
MaxThreads == 2

MaxImages == 2

\* Paths typed at the prompt of write_folder_list, ordinals typed at the prompt
\* of choose_file and edits of the filesystem, over a behaviour.
MaxInputs == 2

MaxRuns == 2

(* ------------------------------ strings -------------------------------- *)

\* The characters in use, in ASCII order.
CharOrder ==
    <<".", "/", "0", "1", "2", "3", "4", "5", "6", "7", "8", "9",
      "A", "B", "E", "F", "G", "I", "N", "P", "W", "_",
      "a", "b", "c", "d", "e", "f", "g", "i", "j", "l", "m", "n", "o", "p",
      "r", "s", "t", "u", "w", "x">>

Code(c) == CHOOSE i \in 1..Len(CharOrder) : CharOrder[i] = c

DigitChars == <<"0", "1", "2", "3", "4", "5", "6", "7", "8", "9">>

IsDigitChar(c) == \E i \in 1..10 : DigitChars[i] = c

DigitVal(c) == (CHOOSE i \in 1..10 : DigitChars[i] = c) - 1

\* str.isdigit(): non-empty and all digits.
IsDigit(s) == Len(s) > 0 /\ \A i \in 1..Len(s) : IsDigitChar(s[i])

RECURSIVE IntOf(_)
\* int(s) of a digit string.
IntOf(s) ==
    IF s = <<>> THEN 0
    ELSE 10 * IntOf(SubSeq(s, 1, Len(s) - 1)) + DigitVal(s[Len(s)])

RECURSIVE Str(_)
\* str(n) / "{}".format(n) of a natural number.
Str(n) ==
    IF n < 10 THEN <<DigitChars[n + 1]>>
    ELSE Str(n \div 10) \o <<DigitChars[(n % 10) + 1]>>

LowerChar(c) ==
    CASE c = "A" -> "a" [] c = "B" -> "b" [] c = "E" -> "e"
      [] c = "F" -> "f" [] c = "G" -> "g" [] c = "I" -> "i" [] c = "N" -> "n"
      [] c = "P" -> "p" [] c = "W" -> "w"
      [] OTHER -> c

\* str.lower()
Lower(s) == [i \in 1..Len(s) |-> LowerChar(s[i])]

\* str.startswith(p)
StartsWith(s, p) == Len(s) >= Len(p) /\ SubSeq(s, 1, Len(p)) = p

\* str.endswith(p)
EndsWith(s, p) ==
    Len(s) >= Len(p) /\ SubSeq(s, Len(s) - Len(p) + 1, Len(s)) = p

\* s.partition(sep)[0]: the text before the first sep, all of s without one.
PartitionHead(s, sep) ==
    IF \E i \in 1..Len(s) : s[i] = sep
    THEN SubSeq(s, 1, (CHOOSE i \in 1..Len(s) :
                          s[i] = sep /\ \A j \in 1..(i - 1) : s[j] # sep) - 1)
    ELSE s

\* a < b for Python strings (code point order, a proper prefix is smaller).
StrLess(a, b) ==
    \E i \in 1..(Len(b)) :
        /\ \A j \in 1..(i - 1) : j <= Len(a) /\ a[j] = b[j]
        /\ \/ i = Len(a) + 1
           \/ i <= Len(a) /\ Code(a[i]) < Code(b[i])

(* ------------------------------- paths --------------------------------- *)

S_app == <<"a", "p", "p">>

S_images == <<"i", "m", "a", "g", "e", "s">>

S_ext == <<"e", "x", "t">>

S_255_b == <<"2", "5", "5", "_", "b">>

S_2_c == <<"2", "_", "c">>

S_1_a == <<"1", "_", "a">>

S_gone == <<"g", "o", "n", "e">>

Empty == <<>>

Dot == <<".">>

DotDot == <<".", ".">>

\* os.path.dirname(os.path.abspath(__file__))
script_dir == <<S_app>>

\* The process's working directory, against which os.path.abspath resolves.
cwd == script_dir

\* os.path.join(a, b) for a relative b.
Join(a, b) == a \o b

RECURSIVE NormFrom(_, _)
NormFrom(done, rest) ==
    IF rest = <<>> THEN done
    ELSE LET c == Head(rest) IN
         IF c = Empty \/ c = Dot THEN NormFrom(done, Tail(rest))
         ELSE IF c = DotDot
              THEN NormFrom(IF done = <<>> THEN done
                            ELSE SubSeq(done, 1, Len(done) - 1), Tail(rest))
              ELSE NormFrom(Append(done, c), Tail(rest))

\* os.path.normpath of an absolute path: drops empty and "." components and
\* resolves ".." components.
NormPath(p) == NormFrom(<<>>, p)

\* os.path.abspath(path) for a relative path.
AbsPath(p) == NormPath(Join(cwd, p))

\* os.path.basename: the text after the last separator.
Basename(p) == IF p = <<>> THEN Empty ELSE p[Len(p)]

RECURSIVE CommonLen(_, _)
CommonLen(a, b) ==
    IF a = <<>> \/ b = <<>> \/ Head(a) # Head(b) THEN 0
    ELSE 1 + CommonLen(Tail(a), Tail(b))

\* os.path.relpath(path, start)
RelPath(path, start) ==
    LET p == NormPath(path)
        s == NormPath(start)
        n == CommonLen(p, s)
        r == [i \in 1..(Len(s) - n) |-> DotDot] \o SubSeq(p, n + 1, Len(p))
    IN IF r = <<>> THEN <<Dot>> ELSE r

RECURSIVE PathText(_)
\* The characters of a relative path, its components joined by "/".
PathText(p) ==
    IF p = <<>> THEN <<>>
    ELSE IF Len(p) = 1 THEN p[1]
    ELSE p[1] \o <<"/">> \o PathText(Tail(p))

(* ----------------------------- filesystem ------------------------------ *)

\* The shape of an image tree below its root; siblings in ascending order.
TreeRel == << <<>>, <<S_255_b>>, <<S_255_b, S_1_a>>, <<S_2_c>>, <<S_2_c, S_1_a>> >>

\* The tree directories whose number of images varies (2_c holds none).
VarRel == {TreeRel[i] : i \in {1, 2, 3, 5}}

Roots == {S_ext, S_images}

TreeOf(r) == [i \in 1..Len(TreeRel) |-> script_dir \o <<r>> \o TreeRel[i]]

\* Every directory of the model, siblings in ascending name order.
DirSeq == <<script_dir>> \o TreeOf(S_ext) \o TreeOf(S_images)

DirSet == {DirSeq[i] : i \in 1..Len(DirSeq)}

\* folder_locations.txt when the file does not exist.
NoFile == [exists |-> FALSE, lines |-> <<>>]

NoFiles == [name \in {} |-> <<>>]

\* folders_processed when the directory does not exist.
NoDir == [exists |-> FALSE, files |-> NoFiles]

Reverse(s) == [i \in 1..Len(s) |-> s[Len(s) + 1 - i]]

\* os.path.exists(p) and os.path.isdir(p), for the directories of the model.
IsDir(p) == LET n == NormPath(p) IN n \in DirSet /\ dirs[n] >= 0

S_img_ == <<"i", "m", "g", "_">>

S_frame_ == <<"f", "r", "a", "m", "e", "_">>

S_Frame_10 == <<"F", "r", "a", "m", "e", "_", "1", "0">>

\* The name of the i-th image file of a directory: 1.PNG, 2.webp, 3.PNG, ...
\* or, with padded names, img_1.png, img_002.png, img_3.png, ... or, with
\* frame names, Frame_10.png, frame_2.png, frame_3.png, ...
ImageName(i) ==
    IF naming = "plain"
    THEN Str(i) \o (IF i % 2 = 1 THEN <<".", "P", "N", "G">>
                               ELSE <<".", "w", "e", "b", "p">>)
    ELSE IF naming = "frames"
    THEN (IF i = 1 THEN S_Frame_10 ELSE S_frame_ \o Str(i))
         \o <<".", "p", "n", "g">>
    ELSE S_img_ \o (IF i % 2 = 1 THEN <<>> ELSE <<"0", "0">>) \o Str(i)
                \o <<".", "p", "n", "g">>

NotesName == <<"n", "o", "t", "e", "s", ".", "p", "n", "g", "x">>

\* os.listdir(p), files only: one non-image file and the directory's images.
ListFiles(p) ==
    LET n == dirs[NormPath(p)]
        asc == <<NotesName>> \o [i \in 1..n |-> ImageName(i)]
    IN IF lsRev THEN Reverse(asc) ELSE asc

\* The directories os.walk finds directly in p, in listing order, joined to p.
Children(p) ==
    LET all == IF lsRev THEN Reverse(DirSeq) ELSE DirSeq
        kids == SelectSeq(all, LAMBDA d :
                    /\ dirs[d] >= 0
                    /\ Len(d) = Len(p) + 1
                    /\ SubSeq(d, 1, Len(p)) = p)
    IN kids

RECURSIVE Flatten(_)
Flatten(ss) == IF ss = <<>> THEN <<>> ELSE Head(ss) \o Flatten(Tail(ss))

RECURSIVE get_subdirectories(_)
\* Every directory below path, top-down: a directory's own subdirectories
\* first, then those of each subdirectory in turn.
get_subdirectories(path) ==
    LET kids == Children(path)
    IN kids \o Flatten([i \in 1..Len(kids) |-> get_subdirectories(kids[i])])

IsImageFile(f) ==
    \/ EndsWith(Lower(f), <<".", "p", "n", "g">>)
    \/ EndsWith(Lower(f), <<".", "w", "e", "b", "p">>)

\* [f for f in os.listdir(folder) if f.lower().endswith(('.png', '.webp'))]
ImageFiles(path) == SelectSeq(ListFiles(path), IsImageFile)

contains_image_files(path) ==
    IF IsDir(path)
    THEN LET files == ListFiles(path)
         IN \E i \in 1..Len(files) : IsImageFile(files[i])
    ELSE FALSE

count_image_files(path) == IF IsDir(path) THEN Len(ImageFiles(path)) ELSE 0

\* Image.open(os.path.join(folder, f)): a .png file is a 4x3 RGBA image, any
\* other a 2x2 RGB image; image 1 of a directory of corrupt cannot be decoded.
ImageOpen(folder, f) ==
    IF NormPath(folder) \in corrupt /\ f = ImageName(1)
    THEN [ok |-> FALSE, width |-> 0, height |-> 0, mode |-> "", info |-> {}]
    ELSE IF EndsWith(Lower(f), <<".", "p", "n", "g">>)
         THEN [ok |-> TRUE, width |-> 4, height |-> 3, mode |-> "RGBA",
               info |-> {}]
         ELSE [ok |-> TRUE, width |-> 2, height |-> 2, mode |-> "RGB",
               info |-> {}]

\* A faulty has_alpha_channel: the transparency entry of a palette image is
\* not looked at.
has_alpha_channel_mode_only(img) == img.mode \in {"RGBA", "LA"}

\* img.info is the set of the keys of the image's info dict.
has_alpha_channel(img) ==
    \/ img.mode \in {"RGBA", "LA"}
    \/ img.mode = "P" /\ "transparency" \in img.info

(* ---------------------- folder_dict (a Python dict) -------------------- *)

\* A dict is the sequence of its items [k, v] in insertion order.
DictKeys(d) == {d[i].k : i \in 1..Len(d)}

DictValues(d) == [i \in 1..Len(d) |-> d[i].v]

InValues(d, v) == \E i \in 1..Len(d) : d[i].v = v

\* d[k] = v: replaces the value of an existing key in place, else appends.
DictSet(d, k, v) ==
    IF k \in DictKeys(d)
    THEN [i \in 1..Len(d) |-> IF d[i].k = k THEN [k |-> k, v |-> v] ELSE d[i]]
    ELSE Append(d, [k |-> k, v |-> v])

\* max(folder_dict.keys(), default=0)
MaxKey(d) ==
    IF d = <<>> THEN 0
    ELSE CHOOSE m \in DictKeys(d) : \A k \in DictKeys(d) : k <= m

(* --------------------------- write_folder_list ------------------------- *)

images_path == Join(script_dir, <<S_images>>)

RECURSIVE AddImagesSubdirs(_, _)
\* The loop over get_subdirectories(images_path).
AddImagesSubdirs(d, subs) ==
    IF subs = <<>> THEN d
    ELSE LET sub == Head(subs)
             d1 == IF contains_image_files(sub) /\ ~InValues(d, sub)
                   THEN DictSet(d, Len(d) + 1, sub)
                   ELSE d
         IN AddImagesSubdirs(d1, Tail(subs))

\* folder_dict after the scan of the default images directory.
ScanImages ==
    IF IsDir(images_path)
    THEN LET d0 == IF contains_image_files(images_path)
                   THEN DictSet(<<>>, 1, images_path)
                   ELSE <<>>
         IN AddImagesSubdirs(d0, get_subdirectories(images_path))
    ELSE <<>>

\* A line of folder_locations.txt is [num, sep, path]: the text before the
\* separator character, that character, and the path after ", " or ". ".
parse_line(line) ==
    IF IsDigit(line.num) /\ line.sep \in {".", ","} /\ line.path # <<>>
    THEN [number |-> IntOf(line.num), folder |-> line.path]
    ELSE [number |-> -1, folder |-> <<>>]

RECURSIVE LoadLocations(_, _)
\* The loop over the lines of folder_locations.txt.
LoadLocations(d, lines) ==
    IF lines = <<>> THEN d
    ELSE LET pl == parse_line(Head(lines))
             folder_abs == Join(script_dir, pl.folder)
             d1 == IF pl.folder # <<>> /\ IsDir(folder_abs)
                   THEN DictSet(d, pl.number, folder_abs)
                   ELSE d
         IN LoadLocations(d1, Tail(lines))

RECURSIVE AddPromptSubdirs(_, _)
\* The loop over get_subdirectories(folder_abs) of the interactive prompt.
AddPromptSubdirs(d, subs) ==
    IF subs = <<>> THEN d
    ELSE LET sub == Head(subs)
             d1 == IF contains_image_files(sub) /\ ~InValues(d, sub)
                   THEN DictSet(d, MaxKey(d) + 1, sub)
                   ELSE d
         IN AddPromptSubdirs(d1, Tail(subs))

\* One pass of the prompt loop for a path that is not "quit".
AddPromptPath(d, folder_path) ==
    LET folder_abs == AbsPath(folder_path)
    IN IF ~IsDir(folder_abs) THEN d
       ELSE LET d1 == IF contains_image_files(folder_abs) /\ ~InValues(d, folder_abs)
                      THEN DictSet(d, MaxKey(d) + 1, folder_abs)
                      ELSE d
            IN AddPromptSubdirs(d1, get_subdirectories(folder_abs))

RECURSIVE SumCounts(_)
SumCounts(vs) ==
    IF vs = <<>> THEN 0 ELSE count_image_files(Head(vs)) + SumCounts(Tail(vs))

\* first_img when the image could not be opened (None).
None == <<>>

\* A faulty FolderInfo: a folder whose first image cannot be opened is left
\* out of folder_counts.
FolderInfoSkip(folder, image_files) ==
    LET img == ImageOpen(folder, image_files[1])
    IN IF img.ok
       THEN <<[folder |-> folder,
               first_img |-> image_files[1],
               width |-> img.width,
               height |-> img.height,
               has_alpha |-> has_alpha_channel(img),
               file_count |-> count_image_files(folder)]>>
       ELSE <<>>

\* The tuple appended to folder_counts for a folder that holds an image.
FolderInfo(folder, image_files) ==
    LET img == ImageOpen(folder, image_files[1])
    IN <<[folder |-> folder,
          first_img |-> IF img.ok THEN image_files[1] ELSE None,
          width |-> IF img.ok THEN img.width ELSE 0,
          height |-> IF img.ok THEN img.height ELSE 0,
          has_alpha |-> IF img.ok THEN has_alpha_channel(img) ELSE FALSE,
          file_count |-> count_image_files(folder)]>>

RECURSIVE GatherCounts(_)
\* folder_counts: one tuple per folder of the mapping that holds an image.
GatherCounts(vs) ==
    IF vs = <<>> THEN <<>>
    ELSE LET folder == Head(vs)
             image_files == ImageFiles(folder)
         IN (IF image_files # <<>>
             THEN FolderInfo(folder, image_files)
             ELSE <<>>) \o GatherCounts(Tail(vs))

(* ------------------------ create_folder_json_files --------------------- *)

S_255_ == <<"2", "5", "5", "_">>

\* The bucket of a folder of folder_counts.
BucketOf(folder) ==
    IF StartsWith(Basename(folder), S_255_) THEN "float" ELSE "main"

S_NoImage == <<"N", "o", "I", "m", "a", "g", "e">>

folder_data(fi) ==
    [index |-> 0,
     folder_rel |-> RelPath(fi.folder, script_dir),
     first_png |-> IF fi.first_img # None THEN fi.first_img ELSE S_NoImage,
     width |-> fi.width,
     height |-> fi.height,
     file_count |-> fi.file_count,
     has_alpha |-> fi.has_alpha]

\* The loop over folder_counts: each folder's folder_data and its bucket.
Tagged(fcs) ==
    [i \in 1..Len(fcs) |->
        [bucket |-> BucketOf(fcs[i].folder), data |-> folder_data(fcs[i])]]

\* groups[file_count] or float_group[file_count], in insertion order.
SubGroup(tagged, bucket, n) ==
    LET mine == SelectSeq(tagged, LAMBDA t :
                    t.bucket = bucket /\ t.data.file_count = n)
    IN [i \in 1..Len(mine) |-> mine[i].data]

\* The keys of groups and float_group, each with its bucket.
GroupKeys(tagged) ==
    {<<tagged[i].bucket, tagged[i].data.file_count>> : i \in 1..Len(tagged)}

\* The first element of the sort key: the number before the first "_" of the
\* basename, or infinity.
NumKey(x) ==
    LET t == PartitionHead(Basename(x.folder_rel), "_")
    IN IF IsDigit(t) THEN [inf |-> FALSE, n |-> IntOf(t)]
       ELSE [inf |-> TRUE, n |-> 0]

NumLess(a, b) == ~a.inf /\ (b.inf \/ a.n < b.n)

\* key(x) < key(y) for the tuples the sort compares.
KeyLess(x, y) ==
    \/ NumLess(NumKey(x), NumKey(y))
    \/ /\ NumKey(x) = NumKey(y)
       /\ StrLess(Basename(x.folder_rel), Basename(y.folder_rel))

RECURSIVE InsertStable(_, _)
InsertStable(sorted, x) ==
    IF sorted = <<>> THEN <<x>>
    ELSE IF KeyLess(x, Head(sorted)) THEN <<x>> \o sorted
    ELSE <<Head(sorted)>> \o InsertStable(Tail(sorted), x)

RECURSIVE Sorted(_)
\* sorted(sub_group, key=...): stable, equal keys keep their input order.
Sorted(seq) ==
    IF seq = <<>> THEN <<>>
    ELSE InsertStable(Sorted(SubSeq(seq, 1, Len(seq) - 1)), seq[Len(seq)])

\* A faulty AssignIndices: enumerate(sub_group_sorted), counting from 0.
AssignIndicesFromZero(seq) == [i \in 1..Len(seq) |-> [seq[i] EXCEPT !.index = i - 1]]

\* enumerate(sub_group_sorted, 1)
AssignIndices(seq) == [i \in 1..Len(seq) |-> [seq[i] EXCEPT !.index = i]]

\* file_name_format.format(file_count)
ManifestName(bucket, n) == [kind |-> bucket, n |-> Str(n)]

\* A faulty OpenW: open(path, 'a'), which keeps what the file held.
OpenAppend(files, name, content) ==
    IF name \in DOMAIN files THEN files[name] \o content ELSE content

\* The content of a file after open(path, 'w') and one write.
OpenW(files, name, content) == content

\* The files of folders_processed after create_folder_json_files.
create_folder_json_files(fcs, files) ==
    LET tagged == Tagged(fcs)
        keys == GroupKeys(tagged)
        new == {ManifestName(k[1], k[2]) : k \in keys}
        json == [name \in new |->
                    LET k == CHOOSE k \in keys : ManifestName(k[1], k[2]) = name
                    IN OpenW(files, name,
                             AssignIndices(Sorted(SubGroup(tagged, k[1], k[2]))))]
    IN [name \in (DOMAIN files) \cup new |->
            IF name \in new THEN json[name] ELSE files[name]]

\* The names of the manifests create_folder_json_files writes.
ManifestNames(fcs) ==
    {ManifestName(k[1], k[2]) : k \in GroupKeys(Tagged(fcs))}

SummaryName(vs) == [kind |-> "folder_count", n |-> Str(SumCounts(vs))]

\* The lines of folder_count_{total}.txt.
SummaryLines(fcs) ==
    [i \in 1..Len(fcs) |->
        [index |-> i,
         folder_rel |-> RelPath(fcs[i].folder, script_dir),
         first_img |-> IF fcs[i].first_img # None THEN fcs[i].first_img
                       ELSE S_NoImage,
         width |-> fcs[i].width,
         height |-> fcs[i].height,
         file_count |-> fcs[i].file_count,
         has_alpha |-> fcs[i].has_alpha]]

\* folders_processed once it exists: os.makedirs when it is missing.
EnsureDir(p) == IF p.exists THEN p ELSE [exists |-> TRUE, files |-> NoFiles]

(* ------------------------------ inputs --------------------------------- *)

Line(num, sep, path) == [num |-> num, sep |-> sep, path |-> path]

\* One folder under two keys and two spellings, the second with a trailing
\* separator.
LocDup ==
    <<Line(<<"1">>, ",", <<S_ext, S_255_b>>),
      Line(<<"2">>, ".", <<S_ext, S_255_b, Empty>>)>>

\* A line that does not parse, a path that no longer exists, two lines with
\* the same key, the second with a trailing separator, and a folder that
\* holds no image.
LocMixed ==
    <<Line(<<"x">>, ",", <<S_ext, S_255_b>>),
      Line(<<"1">>, ",", <<S_gone>>),
      Line(<<"2">>, ",", <<S_ext>>),
      Line(<<"2">>, ".", <<S_ext, S_2_c, S_1_a, Empty>>),
      Line(<<"7">>, ",", <<S_ext, S_2_c>>)>>

TextFile(lines) == [exists |-> TRUE, lines |-> lines]

LocationFiles == {NoFile, TextFile(LocDup), TextFile(LocMixed)}

\* The paths typed at the prompt, relative to the working directory.
PromptInputs == {<<S_ext>>, <<S_ext, Dot, S_255_b>>, <<S_gone>>}

NoPrev == [valid |-> FALSE, inputs |-> <<>>, out |-> NoDir]

(* ------------------------------ actions -------------------------------- *)

\* Compaction before process_files is started.
NoHist ==
    [missing |-> FALSE,   \* Discovery's output was missing at the start
     calls |-> <<>>,      \* the places that have called write_folder_list
     completed |-> 0,     \* the calls of write_folder_list that have returned
     parsed |-> <<>>,     \* the manifests parsed
     wiped |-> {},        \* the files removed from generated_img_lists
     written |-> {},      \* the files written to generated_img_lists
     exit |-> "none",     \* the exit status once the process has ended early
     cause |-> "none"]    \* what ended the process early

NoFolders == [main |-> <<>>, float |-> <<>>]

\* No image has been given to has_alpha_channel.
NoImage == [ok |-> FALSE, width |-> 0, height |-> 0, mode |-> "", info |-> {}]

\* has_alpha_channel has not been called.
AlphaIdle ==
    /\ image = NoImage
    /\ alpha = [returned |-> FALSE, value |-> FALSE]

\* image_resize.py has not been started.
ResizeIdle ==
    /\ tree = [n |-> 0, bad |-> {}, inside |-> FALSE, outputs |-> {}]
    /\ total_files = 0
    /\ processed_files = 0
    /\ counter_lock = 0
    /\ queue = <<>>
    /\ workers = <<>>
    /\ walk = [pc |-> "idle", next |-> 1, found |-> <<>>]

\* Neither batch converter has been started.
ConvertIdle ==
    /\ script = ""
    /\ source_files = <<>>
    /\ batch = [pc |-> "idle", next |-> 1, image_files |-> <<>>]
    /\ tasks = <<>>
    /\ output_files = {}
    /\ pool = <<>>

\* The functions and scripts checked on their own are not in use.
UtilitiesIdle ==
    /\ AlphaIdle
    /\ ResizeIdle
    /\ ConvertIdle

\* A filesystem with plain names, decodable images and write permission, and
\* Compaction not started.
CompactionIdle ==
    /\ corrupt = {}
    /\ writable = TRUE
    /\ naming = "plain"
    /\ generated = NoDir
    /\ cpc = "idle"
    /\ json_pairs = <<>>
    /\ available = <<>>
    /\ all_folders = NoFolders
    /\ hist = NoHist

\* Each directory holds no image, one image or the most.
Init ==
    /\ CompactionIdle
    /\ UtilitiesIdle
    /\ \E r \in Roots, c \in [VarRel -> {0, 1, MaxImages}] :
          dirs = [d \in DirSet |->
                    IF d = script_dir THEN 0
                    ELSE IF d[2] # r THEN -1
                    ELSE IF SubSeq(d, 3, Len(d)) \in VarRel
                         THEN c[SubSeq(d, 3, Len(d))]
                         ELSE 0]
    /\ lsRev \in BOOLEAN
    /\ locations \in LocationFiles
    /\ processed = NoDir
    /\ pc = "idle"
    /\ folder_dict = <<>>
    /\ folder_counts = <<>>
    /\ written = {}
    /\ inputs = <<>>
    /\ prev = NoPrev
    /\ runs = 0
    /\ ninputs = 0

\* The end of write_folder_list, from the final check of folder_dict on.
Finish(fd) ==
    /\ folder_dict' = fd
    /\ IF fd = <<>> \/ ~writable
       THEN /\ pc' = "failed"
            /\ processed' = EnsureDir(processed)
            /\ folder_counts' = IF fd = <<>> THEN <<>> ELSE GatherCounts(DictValues(fd))
            /\ written' = {}
       ELSE LET vs == DictValues(fd)
                fcs == GatherCounts(vs)
                sum == SummaryName(vs)
                p0 == EnsureDir(processed).files
                p1 == [name \in (DOMAIN p0) \cup {sum} |->
                          IF name = sum THEN OpenW(p0, sum, SummaryLines(fcs))
                          ELSE p0[name]]
            IN /\ pc' = "done"
               /\ processed' = [exists |-> TRUE,
                                 files |-> create_folder_json_files(fcs, p1)]
               /\ folder_counts' = fcs
               /\ written' = {sum} \cup ManifestNames(fcs)

\* write_folder_list is started, for at most limit runs.
StartRun(limit) ==
    /\ pc \in {"idle", "done", "failed"}
    /\ processed.exists \/ writable
    /\ runs < limit
    /\ runs' = runs + 1
    /\ inputs' = <<>>
    /\ prev' = IF pc = "done"
               THEN [valid |-> TRUE, inputs |-> inputs, out |-> processed]
               ELSE NoPrev

\* write_folder_list when the images directory yields a folder: it runs to
\* its end without prompting.
RunDefault(limit) ==
    /\ StartRun(limit)
    /\ ScanImages # <<>>
    /\ Finish(ScanImages)
    /\ UNCHANGED <<dirs, lsRev, locations, ninputs>>
    /\ UNCHANGED cvars
    /\ UNCHANGED uvars

\* write_folder_list when the images directory yields nothing: it loads
\* folder_locations.txt and stops at the first prompt.
RunFallback(limit) ==
    /\ StartRun(limit)
    /\ ScanImages = <<>>
    /\ folder_dict' = IF locations.exists
                      THEN LoadLocations(<<>>, locations.lines)
                      ELSE <<>>
    /\ processed' = EnsureDir(processed)
    /\ pc' = "prompt"
    /\ written' = {}
    /\ UNCHANGED <<dirs, lsRev, locations, folder_counts, ninputs>>
    /\ UNCHANGED cvars
    /\ UNCHANGED uvars

\* write_folder_list when folders_processed is missing and cannot be created:
\* os.makedirs raises and the exception is raised again.
RunNoDir(limit) ==
    /\ pc \in {"idle", "done", "failed"}
    /\ ~processed.exists /\ ~writable
    /\ runs < limit
    /\ runs' = runs + 1
    /\ pc' = "failed"
    /\ inputs' = <<>>
    /\ prev' = NoPrev
    /\ folder_dict' = <<>>
    /\ folder_counts' = <<>>
    /\ written' = {}
    /\ UNCHANGED <<dirs, lsRev, locations, processed, ninputs>>
    /\ UNCHANGED cvars
    /\ UNCHANGED uvars

\* A path is typed at the prompt.
Prompt(folder_path) ==
    /\ pc = "prompt"
    /\ ninputs < MaxInputs
    /\ ninputs' = ninputs + 1
    /\ inputs' = Append(inputs, folder_path)
    /\ folder_dict' = AddPromptPath(folder_dict, folder_path)
    /\ UNCHANGED <<dirs, lsRev, locations, processed, pc, folder_counts,
                   written, prev, runs>>
    /\ UNCHANGED cvars
    /\ UNCHANGED uvars

\* "quit" is typed at the prompt: the run goes on to its end.
Quit ==
    /\ pc = "prompt"
    /\ Finish(folder_dict)
    /\ UNCHANGED <<dirs, lsRev, locations, inputs, prev, runs, ninputs>>
    /\ UNCHANGED cvars
    /\ UNCHANGED uvars

\* Outside a run an image is added to a directory or removed from it.
EditImages(d, n) ==
    /\ pc \in {"idle", "done", "failed"}
    /\ ninputs < MaxInputs
    /\ SubSeq(d, 3, Len(d)) \in VarRel
    /\ dirs[d] >= 0
    /\ n \in {dirs[d] - 1, dirs[d] + 1}
    /\ dirs' = [dirs EXCEPT ![d] = n]
    /\ pc' = "idle"
    /\ ninputs' = ninputs + 1
    /\ UNCHANGED <<lsRev, locations, processed, folder_dict, folder_counts,
                   written, inputs, prev, runs>>
    /\ UNCHANGED cvars
    /\ UNCHANGED uvars

\* Outside a run folder_locations.txt is rewritten or removed.
EditLocations(loc) ==
    /\ pc \in {"idle", "done", "failed"}
    /\ ninputs < MaxInputs
    /\ loc # locations
    /\ locations' = loc
    /\ pc' = "idle"
    /\ ninputs' = ninputs + 1
    /\ UNCHANGED <<dirs, lsRev, processed, folder_dict, folder_counts,
                   written, inputs, prev, runs>>
    /\ UNCHANGED cvars
    /\ UNCHANGED uvars

\* One run of Discovery from any filesystem of the model.
Next ==
    \/ RunDefault(1)
    \/ RunFallback(1)
    \/ \E folder_path \in PromptInputs : Prompt(folder_path)
    \/ Quit

Spec == Init /\ [][Next]_vars

\* The filesystem of a fresh tree: one image in every directory that varies.
InitRerun ==
    /\ Init
    /\ ~lsRev
    /\ locations # TextFile(LocMixed)
    /\ \A d \in DirSet : dirs[d] \in {-1, 0, 1}
    /\ \A d \in DirSet \ {script_dir} :
          SubSeq(d, 3, Len(d)) \in VarRel => dirs[d] # 0

\* Runs of Discovery one after the other, the filesystem edited in between.
NextRerun ==
    \/ RunDefault(MaxRuns)
    \/ RunFallback(MaxRuns)
    \/ \E folder_path \in PromptInputs : Prompt(folder_path)
    \/ Quit
    \/ \E d \in DirSet \ {script_dir}, n \in 0..MaxImages : EditImages(d, n)
    \/ \E loc \in LocationFiles : EditLocations(loc)

SpecRerun == InitRerun /\ [][NextRerun]_vars

\* The filesystems in which image 1 of 255_b, of 2_c/1_a, of both or of
\* neither cannot be decoded; the root directory itself holds no image and
\* every other directory none, one or the largest number of images.
InitDecode ==
    /\ UtilitiesIdle
    /\ \E r \in Roots, c \in [VarRel \ {<<>>} -> {0, 1, MaxImages}] :
          /\ dirs = [d \in DirSet |->
                       IF d = script_dir THEN 0
                       ELSE IF d[2] # r THEN -1
                       ELSE IF SubSeq(d, 3, Len(d)) \in VarRel \ {<<>>}
                            THEN c[SubSeq(d, 3, Len(d))]
                            ELSE 0]
          /\ corrupt \in SUBSET {script_dir \o <<r, S_255_b>>,
                                 script_dir \o <<r, S_2_c, S_1_a>>}
    /\ lsRev \in BOOLEAN
    /\ locations \in {NoFile, TextFile(LocDup)}
    /\ processed = NoDir
    /\ pc = "idle"
    /\ folder_dict = <<>>
    /\ folder_counts = <<>>
    /\ written = {}
    /\ inputs = <<>>
    /\ prev = NoPrev
    /\ runs = 0
    /\ ninputs = 0
    /\ writable = TRUE
    /\ naming = "plain"
    /\ generated = NoDir
    /\ cpc = "idle"
    /\ json_pairs = <<>>
    /\ available = <<>>
    /\ all_folders = NoFolders
    /\ hist = NoHist

\* One run of Discovery over images of which some cannot be decoded.
SpecDecode == InitDecode /\ [][Next]_vars

(* ------------------- make_file_lists.py: file names -------------------- *)

S_main_folders_ ==
    <<"m", "a", "i", "n", "_", "f", "o", "l", "d", "e", "r", "s", "_">>

S_float_folders_ ==
    <<"f", "l", "o", "a", "t", "_", "f", "o", "l", "d", "e", "r", "s", "_">>

S_folder_count_ ==
    <<"f", "o", "l", "d", "e", "r", "_", "c", "o", "u", "n", "t", "_">>

S_json == <<".", "j", "s", "o", "n">>

S_txt == <<".", "t", "x", "t">>

\* The text of the name of a file of folders_processed.
FileName(name) ==
    CASE name.kind = "main" -> S_main_folders_ \o name.n \o S_json
      [] name.kind = "float" -> S_float_folders_ \o name.n \o S_json
      [] OTHER -> S_folder_count_ \o name.n \o S_txt

RECURSIVE InsertName(_, _)
InsertName(sorted, x) ==
    IF sorted = <<>> THEN <<x>>
    ELSE IF StrLess(FileName(x), FileName(Head(sorted))) THEN <<x>> \o sorted
    ELSE <<Head(sorted)>> \o InsertName(Tail(sorted), x)

RECURSIVE NamesAscending(_)
NamesAscending(names) ==
    IF names = {} THEN <<>>
    ELSE LET x == CHOOSE x \in names : TRUE
         IN InsertName(NamesAscending(names \ {x}), x)

\* os.listdir(processed_dir): the names in ascending or in descending order.
ListProcessed(files) ==
    LET asc == NamesAscending(DOMAIN files)
    IN IF lsRev THEN Reverse(asc) ELSE asc

\* re.match(r'^<prefix>(\d+)\.json$', file).group(1), or <<>> without a match.
PatternGroup(prefix, file) ==
    LET mid == SubSeq(file, Len(prefix) + 1, Len(file) - Len(S_json))
    IN IF StartsWith(file, prefix) /\ EndsWith(file, S_json)
          /\ Len(file) > Len(prefix) + Len(S_json) /\ IsDigit(mid)
       THEN mid
       ELSE <<>>

float_pattern(file) == PatternGroup(S_float_folders_, file)

main_pattern(file) == PatternGroup(S_main_folders_, file)

\* sub in s
Contains(s, sub) ==
    \E i \in 1..(Len(s) - Len(sub) + 1) : SubSeq(s, i, i + Len(sub) - 1) = sub

RECURSIVE PatternFiles(_, _, _)
\* float_files or main_files: the items [k, v] of the dict filled by the loop
\* over the listing, k the digit group and v the file.
PatternFiles(d, prefix, listing) ==
    IF listing = <<>> THEN d
    ELSE LET g == PatternGroup(prefix, FileName(Head(listing)))
         IN PatternFiles(IF g # <<>> THEN DictSet(d, g, Head(listing)) ELSE d,
                         prefix, Tail(listing))

DictGet(d, k) == (CHOOSE i \in 1..Len(d) : d[i].k = k)

RECURSIVE InsertKey(_, _)
InsertKey(sorted, x) ==
    IF sorted = <<>> THEN <<x>>
    ELSE IF StrLess(x, Head(sorted)) THEN <<x>> \o sorted
    ELSE <<Head(sorted)>> \o InsertKey(Tail(sorted), x)

RECURSIVE SortedKeys(_)
\* sorted(matching_keys): the digit groups in ascending string order.
SortedKeys(keys) ==
    IF keys = {} THEN <<>>
    ELSE LET x == CHOOSE x \in keys : TRUE
         IN InsertKey(SortedKeys(keys \ {x}), x)

\* A dict with the keys 'main' and 'float', each present or not.
Pair(main, float) == [main |-> main, float |-> float]

\* The pairs of the matching keys of a listing, in sorted order of the keys.
MatchingPairs(listing) ==
    LET float_files == PatternFiles(<<>>, S_float_folders_, listing)
        main_files == PatternFiles(<<>>, S_main_folders_, listing)
        keys == SortedKeys(DictKeys(float_files) \cap DictKeys(main_files))
    IN [i \in 1..Len(keys) |->
           Pair(<<main_files[DictGet(main_files, keys[i])].v>>,
                <<float_files[DictGet(float_files, keys[i])].v>>)]

\* A faulty find_default_jsons: every matching pair.
find_default_jsons_all(files) == MatchingPairs(ListProcessed(files))

\* A faulty find_default_jsons: the last of the sorted matching keys.
find_default_jsons_last(files) ==
    LET pairs == MatchingPairs(ListProcessed(files))
    IN IF pairs # <<>> THEN <<pairs[Len(pairs)]>> ELSE <<>>

\* find_default_jsons: the pair of the first of the sorted matching keys as a
\* one-element sequence, and the empty sequence for None.
find_default_jsons(files) ==
    LET pairs == MatchingPairs(ListProcessed(files))
    IN IF pairs # <<>> THEN <<pairs[1]>> ELSE <<>>

(* ------------------- make_file_lists.py: image lists -------------------- *)

RECURSIVE NormRelFrom(_, _)
NormRelFrom(done, rest) ==
    IF rest = <<>> THEN done
    ELSE LET c == Head(rest) IN
         IF c = Empty \/ c = Dot THEN NormRelFrom(done, Tail(rest))
         ELSE IF c = DotDot /\ done # <<>> /\ done[Len(done)] # DotDot
              THEN NormRelFrom(SubSeq(done, 1, Len(done) - 1), Tail(rest))
              ELSE NormRelFrom(Append(done, c), Tail(rest))

\* os.path.normpath of a relative path; the empty path becomes ".".
NormRel(p) ==
    LET n == NormRelFrom(<<>>, p) IN IF n = <<>> THEN <<Dot>> ELSE n

RECURSIVE SplitDigits(_, _, _)
\* re.split(r'(\d+)', s): the texts between the digit runs and the digit runs,
\* in turn; the first and the last element are texts, possibly empty.
SplitDigits(done, cur, rest) ==
    IF rest = <<>>
    THEN IF IsDigit(cur) THEN done \o <<cur, <<>>>> ELSE Append(done, cur)
    ELSE LET c == Head(rest) IN
         IF IsDigitChar(c) = IsDigit(cur) \/ (cur = <<>> /\ ~IsDigitChar(c))
         THEN SplitDigits(done, Append(cur, c), Tail(rest))
         ELSE SplitDigits(Append(done, cur), <<c>>, Tail(rest))

\* A faulty natural_sort_key: a digit run is kept as text.
natural_sort_key_text(s) ==
    LET parts == SplitDigits(<<>>, <<>>, s)
    IN [i \in 1..Len(parts) |->
           [num |-> FALSE, n |-> 0, text |-> Lower(parts[i])]]

\* natural_sort_key(s): int(text) for a digit run and text.lower() otherwise.
natural_sort_key(s) ==
    LET parts == SplitDigits(<<>>, <<>>, s)
    IN [i \in 1..Len(parts) |->
           IF IsDigit(parts[i])
           THEN [num |-> TRUE, n |-> IntOf(parts[i]), text |-> <<>>]
           ELSE [num |-> FALSE, n |-> 0, text |-> Lower(parts[i])]]

\* x < y for two elements of a key at the same position.
PartLess(x, y) == IF x.num THEN x.n < y.n ELSE StrLess(x.text, y.text)

\* a < b for two keys: Python's comparison of lists.
NaturalLess(a, b) ==
    \E i \in 1..Len(b) :
        /\ \A j \in 1..(i - 1) : j <= Len(a) /\ a[j] = b[j]
        /\ \/ i = Len(a) + 1
           \/ i <= Len(a) /\ PartLess(a[i], b[i])

RECURSIVE InsertNatural(_, _)
InsertNatural(sorted, x) ==
    IF sorted = <<>> THEN <<x>>
    ELSE IF NaturalLess(natural_sort_key(x), natural_sort_key(Head(sorted)))
         THEN <<x>> \o sorted
         ELSE <<Head(sorted)>> \o InsertNatural(Tail(sorted), x)

RECURSIVE NaturalSorted(_)
\* sorted(image_files, key=natural_sort_key)
NaturalSorted(seq) ==
    IF seq = <<>> THEN <<>>
    ELSE InsertNatural(NaturalSorted(SubSeq(seq, 1, Len(seq) - 1)), seq[Len(seq)])

\* A faulty SortFolder: a folder that cannot be listed ends the loop.
SortFolderBreak(done, folder) ==
    LET folder_rel_normalized == NormRel(folder.folder_rel)
        folder_abs == Join(script_dir, folder_rel_normalized)
        image_files == ImageFiles(folder_abs)
        sorted_files == NaturalSorted(image_files)
    IN IF done.stop \/ ~IsDir(folder_abs) \/ image_files = <<>>
       THEN [stop |-> TRUE, out |-> done.out]
       ELSE [stop |-> FALSE,
             out |-> Append(done.out,
                        [index |-> folder.index,
                         folder_rel |-> folder_rel_normalized,
                         image_list |->
                            [i \in 1..Len(sorted_files) |->
                                Join(folder_rel_normalized, <<sorted_files[i]>>)]])]

\* A faulty SortFolder: the record is numbered by its place in the output.
SortFolderRenumber(done, folder) ==
    LET folder_rel_normalized == NormRel(folder.folder_rel)
        folder_abs == Join(script_dir, folder_rel_normalized)
        image_files == ImageFiles(folder_abs)
        sorted_files == NaturalSorted(image_files)
    IN IF ~IsDir(folder_abs) \/ image_files = <<>>
       THEN done
       ELSE [stop |-> FALSE,
             out |-> Append(done.out,
                        [index |-> Len(done.out) + 1,
                         folder_rel |-> folder_rel_normalized,
                         image_list |->
                            [i \in 1..Len(sorted_files) |->
                                Join(folder_rel_normalized, <<sorted_files[i]>>)]])]

\* One pass of the loop of sort_image_files over an entry of a manifest.
SortFolder(done, folder) ==
    LET folder_rel_normalized == NormRel(folder.folder_rel)
        folder_abs == Join(script_dir, folder_rel_normalized)
        image_files == ImageFiles(folder_abs)
        sorted_files == NaturalSorted(image_files)
    IN IF ~IsDir(folder_abs) \/ image_files = <<>>
       THEN done
       ELSE [stop |-> FALSE,
             out |-> Append(done.out,
                        [index |-> folder.index,
                         folder_rel |-> folder_rel_normalized,
                         image_list |->
                            [i \in 1..Len(sorted_files) |->
                                Join(folder_rel_normalized, <<sorted_files[i]>>)]])]

RECURSIVE SortFolders(_, _)
SortFolders(done, folder_list) ==
    IF folder_list = <<>> THEN done
    ELSE SortFolders(SortFolder(done, Head(folder_list)), Tail(folder_list))

sort_image_files(folder_list) ==
    SortFolders([stop |-> FALSE, out |-> <<>>], folder_list).out

RECURSIVE Unique(_, _)
Unique(done, rest) ==
    IF rest = <<>> THEN done
    ELSE Unique(IF \E i \in 1..Len(done) : done[i] = Head(rest)
                THEN done ELSE Append(done, Head(rest)), Tail(rest))

\* remove_duplicates: each folder's image_list without repeated paths.
remove_duplicates(folders) ==
    [i \in 1..Len(folders) |->
        [folders[i] EXCEPT !.image_list = Unique(<<>>, @)]]

\* parse_folder_json: the list a manifest holds, [] for a missing file.
parse_folder_json(files, json_path) ==
    IF json_path \in DOMAIN files THEN files[json_path] ELSE <<>>

\* The folders one key of a pair adds to its list.
PairFolders(files, paths) ==
    IF paths = <<>> THEN <<>>
    ELSE LET folders == parse_folder_json(files, paths[1])
         IN IF folders # <<>>
            THEN remove_duplicates(sort_image_files(folders))
            ELSE <<>>

RECURSIVE ProcessPairs(_, _, _)
\* The loop over json_pairs: all_main_folders and all_float_folders.
ProcessPairs(all, files, pairs) ==
    IF pairs = <<>> THEN all
    ELSE ProcessPairs(
            [main |-> all.main \o PairFolders(files, Head(pairs).main),
             float |-> all.float \o PairFolders(files, Head(pairs).float)],
            files, Tail(pairs))

RECURSIVE ParsedPaths(_)
\* The manifests the loop over json_pairs parses, in order.
ParsedPaths(pairs) ==
    IF pairs = <<>> THEN <<>>
    ELSE Head(pairs).main \o Head(pairs).float \o ParsedPaths(Tail(pairs))

(* ------------------- make_file_lists.py: process_files ------------------ *)

\* write_folder_list is called from the place at, one of "call1" (line 208),
\* "call2" (line 225) and "call3" (line 54 of choose_file).
CallDiscovery(at) ==
    /\ cpc' = at
    /\ pc' = "idle"
    /\ hist' = [hist EXCEPT !.calls = Append(@, at)]

\* process_files is started: lines 199-208.
CStart ==
    /\ cpc = "idle"
    /\ pc \in {"idle", "done", "failed"}
    /\ IF ~processed.exists
       THEN /\ cpc' = "call1"
            /\ pc' = "idle"
            /\ hist' = [NoHist EXCEPT !.missing = TRUE, !.calls = <<"call1">>]
       ELSE /\ cpc' = "find"
            /\ pc' = pc
            /\ hist' = [NoHist EXCEPT
                          !.missing = (find_default_jsons(processed.files) = <<>>)]
    /\ json_pairs' = <<>>
    /\ available' = <<>>
    /\ all_folders' = NoFolders
    /\ UNCHANGED <<dirs, lsRev, locations, processed, folder_dict, folder_counts,
                   written, inputs, prev, runs, ninputs, corrupt, writable,
                   naming, generated>>
    /\ UNCHANGED uvars

\* process_files is inside one of its calls of write_folder_list.
InCall == cpc \in {"call1", "call2", "call3"}

\* A step of write_folder_list called by process_files or choose_file.
CDiscovery ==
    \/ InCall /\ pc = "idle" /\ RunDefault(MaxRuns + 1)
    \/ InCall /\ pc = "idle" /\ RunFallback(MaxRuns + 1)
    \/ InCall /\ pc = "idle" /\ RunNoDir(MaxRuns + 1)
    \/ InCall /\ \E folder_path \in PromptInputs : Prompt(folder_path)
    \/ InCall /\ Quit

\* The process ends before process_files has reached its end.
EndEarly(exit, cause) ==
    /\ cpc' = "ended"
    /\ hist' = [hist EXCEPT !.exit = exit, !.cause = cause]

\* The JSON files of a listing: f.endswith('.json').
JsonFiles(listing) == SelectSeq(listing, LAMBDA f : EndsWith(FileName(f), S_json))

\* choose_file from the listing of the available files on (lines 57-86): the
\* matching pairs of the listing if there are any, else the question.
ChooseListed(av) ==
    /\ available' = av
    /\ json_pairs' = MatchingPairs(av)
    /\ cpc' = IF MatchingPairs(av) # <<>> THEN "check" ELSE "ask"

\* write_folder_list has returned or raised.
CReturn ==
    /\ cpc \in {"call1", "call2", "call3"}
    /\ pc \in {"done", "failed"}
    /\ IF pc = "failed"
       THEN /\ EndEarly("1", IF processed.exists /\ folder_dict = <<>>
                               THEN "no folders" ELSE "output")
            /\ UNCHANGED <<json_pairs, available>>
       ELSE IF cpc = "call1" /\ ~processed.exists
       THEN /\ EndEarly("1", "output")
            /\ UNCHANGED <<json_pairs, available>>
       ELSE /\ hist' = [hist EXCEPT !.completed = @ + 1]
            /\ IF cpc = "call3"
               THEN ChooseListed(JsonFiles(ListProcessed(processed.files)))
               ELSE cpc' = "find" /\ UNCHANGED <<json_pairs, available>>
    /\ UNCHANGED <<dvars, corrupt, writable, naming, generated, all_folders>>
    /\ UNCHANGED uvars

\* find_default_jsons is called: line 216 or line 227.
CFind ==
    /\ cpc = "find"
    /\ json_pairs' = find_default_jsons(processed.files)
    /\ cpc' = "found"
    /\ UNCHANGED <<dvars, corrupt, writable, naming, generated, available,
                   all_folders, hist>>
    /\ UNCHANGED uvars

\* A faulty CFound: without a pair choose_file is entered at once.
CFoundNoCall ==
    /\ cpc = "found"
    /\ cpc' = IF json_pairs # <<>> THEN "check" ELSE "choose"
    /\ UNCHANGED <<dvars, corrupt, writable, naming, generated, json_pairs,
                   available, all_folders, hist>>
    /\ UNCHANGED uvars

\* The use process_files makes of the result of find_default_jsons: lines
\* 218-235.
CFound ==
    /\ cpc = "found"
    /\ IF json_pairs # <<>>
       THEN cpc' = "check" /\ UNCHANGED <<pc, hist>>
       ELSE IF \A i \in 1..Len(hist.calls) : hist.calls[i] # "call2"
       THEN CallDiscovery("call2")
       ELSE cpc' = "choose" /\ UNCHANGED <<pc, hist>>
    /\ UNCHANGED <<dirs, lsRev, locations, processed, folder_dict, folder_counts,
                   written, inputs, prev, runs, ninputs, corrupt, writable,
                   naming, generated, json_pairs, available, all_folders>>
    /\ UNCHANGED uvars

\* A faulty CChoose: write_folder_list is called whatever the listing holds.
CChooseAlwaysCall ==
    /\ cpc = "choose"
    /\ CallDiscovery("call3")
    /\ available' = JsonFiles(ListProcessed(processed.files))
    /\ UNCHANGED <<dirs, lsRev, locations, processed, folder_dict, folder_counts,
                   written, inputs, prev, runs, ninputs, corrupt, writable,
                   naming, generated, json_pairs, all_folders>>
    /\ UNCHANGED uvars

\* choose_file is entered: lines 50-54.
CChoose ==
    /\ cpc = "choose"
    /\ LET av == JsonFiles(ListProcessed(processed.files))
       IN IF av = <<>>
          THEN /\ CallDiscovery("call3")
               /\ available' = av
               /\ UNCHANGED json_pairs
          ELSE /\ ChooseListed(av)
               /\ UNCHANGED <<pc, hist>>
    /\ UNCHANGED <<dirs, lsRev, locations, processed, folder_dict, folder_counts,
                   written, inputs, prev, runs, ninputs, corrupt, writable,
                   naming, generated, all_folders>>
    /\ UNCHANGED uvars

RECURSIVE Separately(_)
\* The loop of lines 92-96: every file that matches a pattern, on its own.
Separately(av) ==
    IF av = <<>> THEN <<>>
    ELSE (IF float_pattern(FileName(Head(av))) # <<>>
          THEN <<Pair(<<>>, <<Head(av)>>)>>
          ELSE IF main_pattern(FileName(Head(av))) # <<>>
               THEN <<Pair(<<Head(av)>>, <<>>)>>
               ELSE <<>>) \o Separately(Tail(av))

\* The question of line 89 is answered.
CAnswer(response) ==
    /\ cpc = "ask"
    /\ IF response = "y"
       THEN json_pairs' = Separately(available) /\ cpc' = "check"
       ELSE json_pairs' = <<>> /\ cpc' = "select"
    /\ UNCHANGED <<dvars, corrupt, writable, naming, generated, available,
                   all_folders, hist>>
    /\ UNCHANGED uvars

\* A number is typed at the prompt of line 103.
CSelect(choice) ==
    /\ cpc = "select"
    /\ IF choice = 0
       THEN cpc' = "check" /\ UNCHANGED <<json_pairs, ninputs>>
       ELSE /\ ninputs < MaxInputs
            /\ ninputs' = ninputs + 1
            /\ cpc' = cpc
            /\ json_pairs' =
                  IF choice \in 1..Len(available)
                  THEN LET f == available[choice]
                       IN IF Contains(FileName(f), S_main_folders_)
                          THEN Append(json_pairs, Pair(<<f>>, <<>>))
                          ELSE IF Contains(FileName(f), S_float_folders_)
                               THEN Append(json_pairs, Pair(<<>>, <<f>>))
                               ELSE json_pairs
                  ELSE json_pairs
    /\ UNCHANGED <<dirs, lsRev, locations, processed, pc, folder_dict,
                   folder_counts, written, inputs, prev, runs, corrupt,
                   writable, naming, generated, available, all_folders, hist>>
    /\ UNCHANGED uvars

\* Lines 237-239: without a pair the process exits with status 0.
CCheck ==
    /\ cpc = "check"
    /\ IF json_pairs = <<>>
       THEN EndEarly("0", "no pairs")
       ELSE cpc' = "wipe" /\ UNCHANGED hist
    /\ UNCHANGED <<dvars, corrupt, writable, naming, generated, json_pairs,
                   available, all_folders>>
    /\ UNCHANGED uvars

\* A faulty CWipe: generated_img_lists is created when it is missing and its
\* files are left in place.
CWipeKeep ==
    /\ cpc = "wipe"
    /\ IF writable \/ generated.exists
       THEN /\ generated' = [exists |-> TRUE, files |-> generated.files]
            /\ cpc' = "process"
            /\ UNCHANGED hist
       ELSE /\ EndEarly("1", "output")
            /\ UNCHANGED generated
    /\ UNCHANGED <<dvars, corrupt, writable, naming, json_pairs, available,
                   all_folders>>
    /\ UNCHANGED uvars

\* Lines 241-249: generated_img_lists is created or its files are removed.
CWipe ==
    /\ cpc = "wipe"
    /\ IF writable \/ (generated.exists /\ DOMAIN generated.files = {})
       THEN /\ generated' = [exists |-> TRUE, files |-> NoFiles]
            /\ cpc' = "process"
            /\ hist' = [hist EXCEPT !.wiped = DOMAIN generated.files]
       ELSE /\ EndEarly("1", "output")
            /\ UNCHANGED generated
    /\ UNCHANGED <<dvars, corrupt, writable, naming, json_pairs, available,
                   all_folders>>
    /\ UNCHANGED uvars

\* Lines 251-274: the manifests of json_pairs are parsed and their folders
\* listed.
CProcess ==
    /\ cpc = "process"
    /\ all_folders' = ProcessPairs(NoFolders, processed.files, json_pairs)
    /\ hist' = [hist EXCEPT !.parsed = ParsedPaths(json_pairs)]
    /\ cpc' = "writeMain"
    /\ UNCHANGED <<dvars, corrupt, writable, naming, generated, json_pairs,
                   available>>
    /\ UNCHANGED uvars

\* write_json_list and the test around it: the file is written when the list
\* is not empty, and a failure to write is raised again.
WriteList(folder_list, output_filename, then) ==
    IF folder_list = <<>>
    THEN cpc' = then /\ UNCHANGED <<generated, hist>>
    ELSE IF writable
    THEN /\ generated' =
               [generated EXCEPT !.files =
                   [name \in DOMAIN generated.files \cup {output_filename} |->
                       IF name = output_filename
                       THEN [folders |-> folder_list]
                       ELSE generated.files[name]]]
         /\ hist' = [hist EXCEPT !.written = @ \cup {output_filename}]
         /\ cpc' = then
    ELSE EndEarly("1", "output") /\ UNCHANGED generated

\* Lines 277-280.
CWriteMain ==
    /\ cpc = "writeMain"
    /\ WriteList(all_folders.main, "main_images.json", "writeFloat")
    /\ UNCHANGED <<dvars, corrupt, writable, naming, json_pairs, available,
                   all_folders>>
    /\ UNCHANGED uvars

\* Lines 282-285.
CWriteFloat ==
    /\ cpc = "writeFloat"
    /\ WriteList(all_folders.float, "float_images.json", "done")
    /\ UNCHANGED <<dvars, corrupt, writable, naming, json_pairs, available,
                   all_folders>>
    /\ UNCHANGED uvars

(* ------------------- make_file_lists.py: specification ------------------ *)

\* An entry of a manifest written by an earlier run of Discovery.
Entry(index, folder_rel, file_count) ==
    [index |-> index,
     folder_rel |-> folder_rel,
     first_png |-> S_NoImage,
     width |-> 0,
     height |-> 0,
     file_count |-> file_count,
     has_alpha |-> FALSE]

\* A directory that holds the files fs, a sequence of [name, content].
DirOf(fs) ==
    [exists |-> TRUE,
     files |-> [name \in {fs[i].name : i \in 1..Len(fs)} |->
                   fs[CHOOSE i \in 1..Len(fs) : fs[i].name = name].content]]

File(kind, n, content) == [name |-> [kind |-> kind, n |-> n], content |-> content]

\* folders_processed as earlier runs left it: pairs for the counts 9 and 10,
\* of which some folders hold no image any more or are gone.
ProcessedTwoPairs ==
    DirOf(<<File("main", <<"9">>,
                 <<Entry(1, <<S_images, S_2_c, S_1_a>>, 9),
                   Entry(2, <<S_gone>>, 9),
                   Entry(3, <<S_images>>, 9),
                   Entry(4, <<S_ext, S_255_b>>, 9)>>),
            File("float", <<"9">>,
                 <<Entry(1, <<S_images, S_255_b>>, 9)>>),
            File("main", <<"1", "0">>,
                 <<Entry(1, <<S_ext, S_2_c, S_1_a>>, 10)>>),
            File("float", <<"1", "0">>,
                 <<Entry(1, <<S_ext, S_255_b>>, 10),
                   Entry(2, <<S_ext, S_2_c>>, 10)>>),
            File("folder_count", <<"1", "9">>, <<>>)>>)

\* folders_processed with manifests that share no count, one of them with a
\* name no pattern matches.
ProcessedNoPair ==
    DirOf(<<File("main", <<"9">>,
                 <<Entry(1, <<S_gone>>, 9),
                   Entry(2, <<S_images, S_2_c, S_1_a>>, 9),
                   Entry(3, <<S_ext, S_2_c, S_1_a>>, 9)>>),
            File("float", <<"1", "0">>,
                 <<Entry(1, <<S_images, S_255_b>>, 10),
                   Entry(2, <<S_ext, S_255_b>>, 10)>>),
            File("main", <<"x">>,
                 <<Entry(1, <<S_images, S_255_b, S_1_a>>, 9)>>)>>)

\* folders_processed with the summary only.
ProcessedNoJson == DirOf(<<File("folder_count", <<"0">>, <<>>)>>)

ProcessedDirs == {NoDir, ProcessedNoJson, ProcessedNoPair, ProcessedTwoPairs}

\* generated_img_lists as an earlier run left it.
GeneratedOld ==
    [exists |-> TRUE,
     files |-> [name \in {"main_images.json", "float_images.json"} |->
                   [folders |-> <<>>]]]

\* The filesystems Compaction is started on: every directory below the root
\* other than 2_c holds no image or the largest number of images; the ones
\* in which nothing can be created or written list in ascending order and
\* have plain names; the ones with frame names list in ascending order and
\* have no generated_img_lists yet.
InitCompact ==
    /\ UtilitiesIdle
    /\ \E r \in Roots, c \in [VarRel \ {<<>>} -> {0, MaxImages}] :
          dirs = [d \in DirSet |->
                    IF d = script_dir THEN 0
                    ELSE IF d[2] # r THEN -1
                    ELSE IF SubSeq(d, 3, Len(d)) \in VarRel \ {<<>>}
                         THEN c[SubSeq(d, 3, Len(d))]
                         ELSE 0]
    /\ lsRev \in BOOLEAN
    /\ locations = NoFile
    /\ processed \in ProcessedDirs
    /\ pc = "idle"
    /\ folder_dict = <<>>
    /\ folder_counts = <<>>
    /\ written = {}
    /\ inputs = <<>>
    /\ prev = NoPrev
    /\ runs = 0
    /\ ninputs = 0
    /\ corrupt = {}
    /\ naming \in {"plain", "padded", "frames"}
    /\ writable \in IF lsRev \/ naming # "plain" THEN {TRUE} ELSE BOOLEAN
    /\ generated \in {NoDir, GeneratedOld}
    /\ naming = "frames" => (~lsRev /\ generated = NoDir)
    /\ cpc = "idle"
    /\ json_pairs = <<>>
    /\ available = <<>>
    /\ all_folders = NoFolders
    /\ hist = NoHist

\* One run of process_files, with the runs of write_folder_list it calls.
NextCompact ==
    \/ CStart
    \/ CDiscovery
    \/ CReturn
    \/ CFind
    \/ CFound
    \/ CChoose
    \/ \E response \in {"y", "n"} : CAnswer(response)
    \/ \E choice \in 0..(Len(available) + 1) : CSelect(choice)
    \/ CCheck
    \/ CWipe
    \/ CProcess
    \/ CWriteMain
    \/ CWriteFloat

SpecCompact == InitCompact /\ [][NextCompact]_vars

(* --------------------- has_alpha_channel on its own -------------------- *)

\* A filesystem without image folders on which no script has been started.
DiscoveryIdle ==
    /\ dirs = [d \in DirSet |-> IF d = script_dir THEN 0 ELSE -1]
    /\ lsRev = FALSE
    /\ locations = NoFile
    /\ processed = NoDir
    /\ pc = "idle"
    /\ folder_dict = <<>>
    /\ folder_counts = <<>>
    /\ written = {}
    /\ inputs = <<>>
    /\ prev = NoPrev
    /\ runs = 0
    /\ ninputs = 0

\* The modes of the images the PNG and WebP decoders produce.
Modes == {"1", "L", "LA", "I;16", "P", "RGB", "RGBA"}

\* The keys an image's info dict may hold.
InfoKeys == {"transparency", "dpi", "gamma", "icc_profile"}

\* The images has_alpha_channel is called with.
Images ==
    {[ok |-> TRUE, width |-> 4, height |-> 3, mode |-> m, info |-> i] :
        m \in Modes, i \in SUBSET InfoKeys}

InitAlpha ==
    /\ DiscoveryIdle
    /\ CompactionIdle
    /\ ResizeIdle
    /\ ConvertIdle
    /\ image \in Images
    /\ alpha = [returned |-> FALSE, value |-> FALSE]

\* has_alpha_channel(image) is called and returns.
CallHasAlpha ==
    /\ ~alpha.returned
    /\ alpha' = [returned |-> TRUE, value |-> has_alpha_channel(image)]
    /\ UNCHANGED <<image, dvars, cvars, rvars, wvars>>

NextAlpha == CallHasAlpha

SpecAlpha == InitAlpha /\ [][NextAlpha]_vars

(* ------------------------ utilities/image_resize.py -------------------- *)

\* A task submitted to the executor: resize_image for a file of parent_dir
\* (level 1, saved in smol_dir) or for a file found in smol_dir (level 2,
\* saved in the directory of the same name inside smol_dir).
Task(file, level) == [file |-> file, level |-> level, status |-> "queued"]

\* count_png_files(parent_dir): the source files, and the files of smol_dir
\* when smol_dir lies below parent_dir.
count_png_files ==
    tree.n + (IF tree.inside THEN Cardinality(tree.outputs) ELSE 0)

\* The source files in smol_dir, as os.walk lists them.
ListSmol ==
    LET present == {f \in 1..tree.n : <<1, f>> \in tree.outputs}
    IN SelectSeq([f \in 1..tree.n |-> f], LAMBDA f : f \in present)

\* The runs of image_resize.py: up to MaxImages .png files in parent_dir, any
\* of which may be undecodable; parent_dir is a directory of its own, or it
\* is "." so that smol_dir ("._smol") lies below it; 1 to MaxThreads threads.
InitResize ==
    /\ DiscoveryIdle
    /\ CompactionIdle
    /\ AlphaIdle
    /\ ConvertIdle
    /\ \E n \in 0..MaxImages, bad \in SUBSET (1..MaxImages), inside \in BOOLEAN :
          /\ bad \subseteq 1..n
          /\ tree = [n |-> n, bad |-> bad, inside |-> inside, outputs |-> {}]
    /\ total_files = 0
    /\ processed_files = 0
    /\ counter_lock = 0
    /\ queue = <<>>
    /\ \E num_threads \in 1..MaxThreads :
          workers = [t \in 1..num_threads |-> [pc |-> "idle", task |-> 0, tmp |-> 0]]
    /\ walk = [pc |-> "idle", next |-> 1, found |-> <<>>]

\* main: smol_dir is created, total_files is counted and
\* create_smol_structure starts its walk at parent_dir.
RMain ==
    /\ walk.pc = "idle"
    /\ total_files' = count_png_files
    /\ walk' = [pc |-> "root", next |-> 1, found |-> <<>>]
    /\ UNCHANGED <<tree, processed_files, counter_lock, queue, workers>>
    /\ UNCHANGED <<dvars, cvars, avars, wvars>>

\* The walk submits the next file of parent_dir.
RSubmitRoot ==
    /\ walk.pc = "root"
    /\ walk.next <= tree.n
    /\ queue' = Append(queue, Task(walk.next, 1))
    /\ walk' = [walk EXCEPT !.next = @ + 1]
    /\ UNCHANGED <<tree, total_files, processed_files, counter_lock, workers>>
    /\ UNCHANGED <<dvars, cvars, avars, wvars>>

\* The walk leaves parent_dir: it lists smol_dir when smol_dir lies below
\* parent_dir, else it is over and the executor is shut down.
RLeaveRoot ==
    /\ walk.pc = "root"
    /\ walk.next > tree.n
    /\ walk' = IF tree.inside
               THEN [pc |-> "dest", next |-> 1, found |-> ListSmol]
               ELSE [pc |-> "shutdown", next |-> 1, found |-> <<>>]
    /\ UNCHANGED <<tree, total_files, processed_files, counter_lock, queue,
                   workers>>
    /\ UNCHANGED <<dvars, cvars, avars, wvars>>

\* The walk submits the next file it found in smol_dir.
RSubmitDest ==
    /\ walk.pc = "dest"
    /\ walk.next <= Len(walk.found)
    /\ queue' = Append(queue, Task(walk.found[walk.next], 2))
    /\ walk' = [walk EXCEPT !.next = @ + 1]
    /\ UNCHANGED <<tree, total_files, processed_files, counter_lock, workers>>
    /\ UNCHANGED <<dvars, cvars, avars, wvars>>

\* The walk leaves smol_dir: the executor is shut down.
RLeaveDest ==
    /\ walk.pc = "dest"
    /\ walk.next > Len(walk.found)
    /\ walk' = [pc |-> "shutdown", next |-> 1, found |-> <<>>]
    /\ UNCHANGED <<tree, total_files, processed_files, counter_lock, queue,
                   workers>>
    /\ UNCHANGED <<dvars, cvars, avars, wvars>>

\* The with block of the executor ends once every task has ended; the
\* number of resized images is printed.
RShutdown ==
    /\ walk.pc = "shutdown"
    /\ \A i \in 1..Len(queue) : queue[i].status \in {"done", "raised"}
    /\ walk' = [walk EXCEPT !.pc = "printed"]
    /\ UNCHANGED <<tree, total_files, processed_files, counter_lock, queue,
                   workers>>
    /\ UNCHANGED <<dvars, cvars, avars, wvars>>

\* Thread t takes the first task waiting in the queue.
RTake(t) ==
    /\ workers[t].pc = "idle"
    /\ \E i \in 1..Len(queue) :
          /\ queue[i].status = "queued"
          /\ \A j \in 1..(i - 1) : queue[j].status # "queued"
          /\ queue' = [queue EXCEPT ![i].status = "running"]
          /\ workers' = [workers EXCEPT ![t] = [pc |-> "resize", task |-> i, tmp |-> 0]]
    /\ UNCHANGED <<tree, total_files, processed_files, counter_lock, walk>>
    /\ UNCHANGED <<dvars, cvars, avars, wvars>>

\* resize_image up to img.save: Image.open raises for a file that cannot be
\* decoded and the task ends; else the resized image is saved.
RResize(t) ==
    /\ workers[t].pc = "resize"
    /\ LET i == workers[t].task
       IN IF queue[i].level = 1 /\ queue[i].file \in tree.bad
          THEN /\ queue' = [queue EXCEPT ![i].status = "raised"]
               /\ workers' = [workers EXCEPT ![t] = [pc |-> "idle", task |-> 0, tmp |-> 0]]
               /\ UNCHANGED tree
          ELSE /\ tree' = [tree EXCEPT !.outputs =
                              @ \cup {<<queue[i].level, queue[i].file>>}]
               /\ workers' = [workers EXCEPT ![t].pc = "lock"]
               /\ UNCHANGED queue
    /\ UNCHANGED <<total_files, processed_files, counter_lock, walk>>
    /\ UNCHANGED <<dvars, cvars, avars, wvars>>

\* with counter_lock: the thread waits until the lock is free and takes it.
RAcquire(t) ==
    /\ workers[t].pc = "lock"
    /\ counter_lock = 0
    /\ counter_lock' = t
    /\ workers' = [workers EXCEPT ![t].pc = "load"]
    /\ UNCHANGED <<tree, total_files, processed_files, queue, walk>>
    /\ UNCHANGED <<dvars, cvars, avars, wvars>>

\* processed_files += 1, first half: the global is read.
RLoad(t) ==
    /\ workers[t].pc = "load"
    /\ workers' = [workers EXCEPT ![t].pc = "store", ![t].tmp = processed_files]
    /\ UNCHANGED <<tree, total_files, processed_files, counter_lock, queue, walk>>
    /\ UNCHANGED <<dvars, cvars, avars, wvars>>

\* processed_files += 1, second half: the sum is stored.
RStore(t) ==
    /\ workers[t].pc = "store"
    /\ processed_files' = workers[t].tmp + 1
    /\ workers' = [workers EXCEPT ![t].pc = "release"]
    /\ UNCHANGED <<tree, total_files, counter_lock, queue, walk>>
    /\ UNCHANGED <<dvars, cvars, avars, wvars>>

\* The with block ends: counter_lock is released and the task has ended.
RRelease(t) ==
    /\ workers[t].pc = "release"
    /\ counter_lock' = IF counter_lock = t THEN 0 ELSE counter_lock
    /\ queue' = [queue EXCEPT ![workers[t].task].status = "done"]
    /\ workers' = [workers EXCEPT ![t] = [pc |-> "idle", task |-> 0, tmp |-> 0]]
    /\ UNCHANGED <<tree, total_files, processed_files, walk>>
    /\ UNCHANGED <<dvars, cvars, avars, wvars>>

NextResize ==
    \/ RMain
    \/ RSubmitRoot
    \/ RLeaveRoot
    \/ RSubmitDest
    \/ RLeaveDest
    \/ RShutdown
    \/ \E t \in DOMAIN workers : RTake(t)
    \/ \E t \in DOMAIN workers : RResize(t)
    \/ \E t \in DOMAIN workers : RAcquire(t)
    \/ \E t \in DOMAIN workers : RLoad(t)
    \/ \E t \in DOMAIN workers : RStore(t)
    \/ \E t \in DOMAIN workers : RRelease(t)

SpecResize == InitResize /\ [][NextResize]_vars

(* -------- utilities/makeWebp.py and resizeToWebpWithAlpha.py ----------- *)

S_src == <<"s", "r", "c">>

S_a_jpg == <<"a", ".", "j", "p", "g">>

S_a_png == <<"a", ".", "p", "n", "g">>

S_a_txt == <<"a", ".", "t", "x", "t">>

S_a_webp == <<"a", ".", "w", "e", "b", "p">>

S_b_PNG == <<"b", ".", "P", "N", "G">>

S_dot_webp == <<".", "w", "e", "b", "p">>

\* The file names a source directory may hold, in ascending order.
SourceNames == <<S_a_jpg, S_a_png, S_a_txt, S_a_webp, S_b_PNG>>

\* The directory typed at the prompt of either script.
source_root == <<S_app, S_src>>

\* The extensions both scripts convert.
supported_extensions ==
    {<<".", "j", "p", "g">>, <<".", "j", "p", "e", "g">>,
     <<".", "p", "n", "g">>, <<".", "b", "m", "p">>,
     <<".", "t", "i", "f", "f">>, <<".", "g", "i", "f">>, S_dot_webp}

\* s.rfind("."): the position of the last dot of s, 0 without one.
LastDot(s) ==
    IF \E i \in 1..Len(s) : s[i] = "."
    THEN CHOOSE i \in 1..Len(s) :
            s[i] = "." /\ \A j \in (i + 1)..Len(s) : s[j] # "."
    ELSE 0

\* os.path.splitext(name)[0]: the text before the last dot, all of the name
\* when it has no dot or nothing but dots before the last one.
splitext_root(name) ==
    LET i == LastDot(name)
    IN IF i > 1 /\ \E j \in 1..(i - 1) : name[j] # "."
       THEN SubSeq(name, 1, i - 1)
       ELSE name

\* PurePath.suffix: the text from the last dot on, empty when the name has
\* no dot, starts with its only dot or ends with a dot.
suffix(name) ==
    LET i == LastDot(name)
    IN IF 1 < i /\ i < Len(name) THEN SubSeq(name, i, Len(name)) ELSE <<>>

\* PurePath.with_suffix(sfx) of a file name.
with_suffix(name, sfx) ==
    SubSeq(name, 1, Len(name) - Len(suffix(name))) \o sfx

\* The directory the outputs go to: next to the source directory, named
\* after it with "_converted" (resizeToWebpWithAlpha) or with the quality
\* and width (makeWebp) appended.
output_root(scr) ==
    LET parent == SubSeq(source_root, 1, Len(source_root) - 1)
        name == source_root[Len(source_root)]
    IN IF scr = "makeWebp"
       THEN Append(parent, name \o <<"_", "5", "5", "q", "_", "8", "1", "0", "p">>)
       ELSE Append(parent, name \o <<"_", "c", "o", "n", "v", "e", "r", "t", "e", "d">>)

\* os.path.relpath(path, root) / Path.relative_to(root) of a path below root.
relpath(path, root) == SubSeq(path, Len(root) + 1, Len(path))

\* get_output_path of resizeToWebpWithAlpha.py: the path relative to
\* source_root moved below output_root, its extension replaced by .webp.
get_output_path(input_path, src_root, out_root) ==
    LET joined == out_root \o relpath(input_path, src_root)
    IN [joined EXCEPT ![Len(joined)] = splitext_root(@) \o S_dot_webp]

\* output_dir / relative_path.with_suffix(".webp") of makeWebp.py.
makeWebp_output_path(image_file, input_dir, output_dir) ==
    LET relative_path == relpath(image_file, input_dir)
    IN output_dir \o [relative_path EXCEPT ![Len(relative_path)] =
                         with_suffix(@, S_dot_webp)]

\* The output path either script gives a source file.
OutputPath(scr, path) ==
    IF scr = "makeWebp"
    THEN makeWebp_output_path(path, source_root, output_root(scr))
    ELSE get_output_path(path, source_root, output_root(scr))

\* Whether a script converts a file of this name: makeWebp.py compares the
\* lowered suffix, resizeToWebpWithAlpha.py the end of the lowered name.
IsSupported(scr, name) ==
    IF scr = "makeWebp"
    THEN Lower(suffix(name)) \in supported_extensions
    ELSE \E e \in supported_extensions : EndsWith(Lower(name), e)

\* What check_image_properties may return for a decodable image.
ImageProps == [has_alpha : BOOLEAN, is_correct_size : BOOLEAN]

\* An image that has no alpha channel and is not 810x1080.
PlainProps == [has_alpha |-> FALSE, is_correct_size |-> FALSE]

\* A file of the source directory.
SourceFile(i, props) ==
    [path |-> Append(source_root, SourceNames[i]),
     has_alpha |-> props.has_alpha,
     is_correct_size |-> props.is_correct_size]

\* The listing of a source directory that holds the names of present, in
\* ascending order or, when rev, in descending order.
Listing(present, props, rev) ==
    LET n == Len(SourceNames)
        order == [i \in 1..n |-> IF rev THEN n + 1 - i ELSE i]
        kept == SelectSeq(order, LAMBDA i : i \in present)
    IN [k \in 1..Len(kept) |-> SourceFile(kept[k], props[kept[k]])]

\* is_webp and has_alpha and is_correct_size: the image needs no conversion.
AlreadyOptimized(f) ==
    /\ EndsWith(Lower(f.path[Len(f.path)]), S_dot_webp)
    /\ f.has_alpha
    /\ f.is_correct_size

\* The operation main of resizeToWebpWithAlpha.py chooses for an image.
Operation(f) ==
    IF f.is_correct_size /\ ~f.has_alpha THEN "add_alpha"
    ELSE IF ~f.is_correct_size /\ f.has_alpha THEN "resize"
    ELSE "add_alpha_and_resize"

\* A task of the worker pool.
ConvertTask(scr, f, status) ==
    [input_path |-> f.path,
     output_path |-> OutputPath(scr, f.path),
     operation |-> IF scr = "makeWebp" THEN "convert" ELSE Operation(f),
     status |-> status]

\* The runs of the batch converters: either script on one directory of up
\* to MaxImages files, all decodable, listed in either order; the output
\* directory is absent or holds a.webp of an earlier run; 1 to MaxThreads
\* workers.
InitConvert ==
    /\ DiscoveryIdle
    /\ CompactionIdle
    /\ AlphaIdle
    /\ ResizeIdle
    /\ script \in {"makeWebp", "resizeToWebpWithAlpha"}
    /\ \E present \in SUBSET (1..Len(SourceNames)), rev \in BOOLEAN,
          props \in [1..Len(SourceNames) -> ImageProps] :
          /\ Cardinality(present) <= MaxImages
          /\ \A i \in 1..Len(SourceNames) :
                (\/ i \notin present
                 \/ script = "makeWebp"
                 \/ ~IsSupported(script, SourceNames[i])) => props[i] = PlainProps
          /\ source_files = Listing(present, props, rev)
    /\ batch = [pc |-> "idle", next |-> 1, image_files |-> <<>>]
    /\ tasks = <<>>
    /\ output_files \in
          {{}, {[path |-> OutputPath(script, Append(source_root, S_a_webp)),
                 content |-> <<>>]}}
    /\ \E num_workers \in 1..MaxThreads :
          pool = [t \in 1..num_workers |-> [pc |-> "idle", task |-> 0]]

\* The script collects the files with a supported extension.  makeWebp.py
\* opens its pool; resizeToWebpWithAlpha.py exits when there is none or
\* when the first one is already optimized, else it prepares its tasks.
BStart ==
    /\ batch.pc = "idle"
    /\ LET image_files ==
              SelectSeq(source_files,
                        LAMBDA f : IsSupported(script, f.path[Len(f.path)]))
       IN batch' = [pc |-> IF script = "makeWebp" THEN "submit"
                           ELSE IF image_files = <<>> THEN "exit"
                           ELSE IF AlreadyOptimized(image_files[1]) THEN "exit"
                           ELSE "prepare",
                    next |-> 1,
                    image_files |-> image_files]
    /\ UNCHANGED <<script, source_files, tasks, output_files, pool>>
    /\ UNCHANGED <<dvars, cvars, avars, rvars>>

\* resizeToWebpWithAlpha.py, main: the next image is skipped when it is
\* already optimized, else a task for it is appended to tasks.
BPrepare ==
    /\ batch.pc = "prepare"
    /\ batch.next <= Len(batch.image_files)
    /\ LET f == batch.image_files[batch.next]
       IN tasks' = IF AlreadyOptimized(f) THEN tasks
                   ELSE Append(tasks, ConvertTask(script, f, "prepared"))
    /\ batch' = [batch EXCEPT !.next = @ + 1]
    /\ UNCHANGED <<script, source_files, output_files, pool>>
    /\ UNCHANGED <<dvars, cvars, avars, rvars>>

\* resizeToWebpWithAlpha.py, main: every image has been looked at; the
\* script exits without tasks, else it opens its pool.
BPrepared ==
    /\ batch.pc = "prepare"
    /\ batch.next > Len(batch.image_files)
    /\ batch' = [batch EXCEPT !.pc = IF tasks = <<>> THEN "exit" ELSE "submit",
                              !.next = 1]
    /\ UNCHANGED <<script, source_files, tasks, output_files, pool>>
    /\ UNCHANGED <<dvars, cvars, avars, rvars>>

\* executor.submit: makeWebp.py submits a task for its next image,
\* resizeToWebpWithAlpha.py the next task it prepared.
BSubmit ==
    /\ batch.pc = "submit"
    /\ IF script = "makeWebp"
       THEN /\ batch.next <= Len(batch.image_files)
            /\ tasks' = Append(tasks,
                               ConvertTask(script, batch.image_files[batch.next],
                                           "queued"))
       ELSE /\ batch.next <= Len(tasks)
            /\ tasks' = [tasks EXCEPT ![batch.next].status = "queued"]
    /\ batch' = [batch EXCEPT !.next = @ + 1]
    /\ UNCHANGED <<script, source_files, output_files, pool>>
    /\ UNCHANGED <<dvars, cvars, avars, rvars>>

\* The with block of the executor ends once every task has been submitted
\* and has ended.
BShutdown ==
    /\ batch.pc = "submit"
    /\ batch.next > (IF script = "makeWebp" THEN Len(batch.image_files)
                     ELSE Len(tasks))
    /\ \A i \in 1..Len(tasks) : tasks[i].status \in {"saved", "skipped"}
    /\ batch' = [batch EXCEPT !.pc = "complete"]
    /\ UNCHANGED <<script, source_files, tasks, output_files, pool>>
    /\ UNCHANGED <<dvars, cvars, avars, rvars>>

\* Worker t takes the first task waiting in the pool.
PTake(t) ==
    /\ pool[t].pc = "idle"
    /\ \E i \in 1..Len(tasks) :
          /\ tasks[i].status = "queued"
          /\ \A j \in 1..(i - 1) : tasks[j].status # "queued"
          /\ tasks' = [tasks EXCEPT ![i].status = "running"]
          /\ pool' = [pool EXCEPT ![t] =
                         [pc |-> IF script = "makeWebp" THEN "save" ELSE "exists",
                          task |-> i]]
    /\ UNCHANGED <<script, source_files, batch, output_files>>
    /\ UNCHANGED <<dvars, cvars, avars, rvars>>

\* process_image of resizeToWebpWithAlpha.py, os.path.exists(output_path):
\* the task ends when the output is there, else the image is loaded.
PExists(t) ==
    /\ pool[t].pc = "exists"
    /\ LET i == pool[t].task
       IN IF \E o \in output_files : o.path = tasks[i].output_path
          THEN /\ tasks' = [tasks EXCEPT ![i].status = "skipped"]
               /\ pool' = [pool EXCEPT ![t] = [pc |-> "idle", task |-> 0]]
          ELSE /\ pool' = [pool EXCEPT ![t].pc = "save"]
               /\ UNCHANGED tasks
    /\ UNCHANGED <<script, source_files, batch, output_files>>
    /\ UNCHANGED <<dvars, cvars, avars, rvars>>

\* process_image of either script: the converted image is written to
\* output_path, in place of what the file held, and the task ends.
PSave(t) ==
    /\ pool[t].pc = "save"
    /\ LET i == pool[t].task
       IN /\ output_files' =
                {o \in output_files : o.path # tasks[i].output_path}
                   \cup {[path |-> tasks[i].output_path,
                          content |-> tasks[i].input_path]}
          /\ tasks' = [tasks EXCEPT ![i].status = "saved"]
    /\ pool' = [pool EXCEPT ![t] = [pc |-> "idle", task |-> 0]]
    /\ UNCHANGED <<script, source_files, batch>>
    /\ UNCHANGED <<dvars, cvars, avars, rvars>>

NextConvert ==
    \/ BStart
    \/ BPrepare
    \/ BPrepared
    \/ BSubmit
    \/ BShutdown
    \/ \E t \in DOMAIN pool : PTake(t)
    \/ \E t \in DOMAIN pool : PExists(t)
    \/ \E t \in DOMAIN pool : PSave(t)

SpecConvert == InitConvert /\ [][NextConvert]_vars

(* ------------------------------ views ---------------------------------- *)

\* The manifest files written by the current run.
WrittenManifests == {name \in written : name.kind \in {"main", "float"}}

\* The folder_rel values of the entries of a file of folders_processed.
RelsIn(name) ==
    {processed.files[name][i].folder_rel : i \in 1..Len(processed.files[name])}

\* The folders accepted by the current run, each named by its relative path.
AcceptedRels ==
    {RelPath(folder_counts[i].folder, script_dir) : i \in 1..Len(folder_counts)}

\* The written manifests that hold an entry for the folder r.
ManifestsOf(r) == {name \in WrittenManifests : r \in RelsIn(name)}

(* ------------------------------ claims --------------------------------- *)

\* C1: after a run, every accepted folder appears in exactly one manifest
\* written by the run, and the folder_rel values of those manifests together
\* are exactly the accepted folders.
PartitionCompleteness ==
    pc = "done" =>
        /\ \A r \in AcceptedRels : Cardinality(ManifestsOf(r)) = 1
        /\ UNION {RelsIn(name) : name \in WrittenManifests} = AcceptedRels

\* C2: after a run, an accepted folder has an entry in a float manifest
\* exactly when the name of its directory starts with "255_", and an entry in
\* a main manifest exactly when it does not.
BucketRouting ==
    pc = "done" =>
        \A i \in 1..Len(folder_counts) :
            LET r == RelPath(folder_counts[i].folder, script_dir)
                isFloat == StartsWith(Basename(NormPath(folder_counts[i].folder)), S_255_)
            IN /\ (\E name \in ManifestsOf(r) : name.kind = "float") <=> isFloat
               /\ (\E name \in ManifestsOf(r) : name.kind = "main") <=> ~isFloat

\* C3: after a run, the entries of every manifest written by the run carry
\* the indices 1, 2, ..., n in the order in which they are written.
IndexContiguity ==
    pc = "done" =>
        \A name \in WrittenManifests :
            \A i \in 1..Len(processed.files[name]) :
                processed.files[name][i].index = i

\* C3 witness: a run has written a manifest of at least two entries.
IndexContiguityWitness ==
    /\ pc = "done"
    /\ \E name \in WrittenManifests : Len(processed.files[name]) >= 2

\* The order the specification describes: the number before the first "_", then
\* the text of the full relative path.
PathKeyLess(x, y) ==
    \/ NumLess(NumKey(x), NumKey(y))
    \/ /\ NumKey(x) = NumKey(y)
       /\ StrLess(PathText(x.folder_rel), PathText(y.folder_rel))

\* C4: after a run, every manifest written by the run is ordered by the number
\* before the first "_" of the basename (infinity without one), ties broken by
\* the full relative path, ascending.
GroupSortOrder ==
    pc = "done" =>
        \A name \in WrittenManifests :
            \A i, j \in 1..Len(processed.files[name]) :
                i < j => ~PathKeyLess(processed.files[name][j],
                                      processed.files[name][i])

\* The index given to each folder by the grouping step: the set of
\* <<manifest, folder_rel, index>> over the manifests it writes.
IndexAssignment(fcs) ==
    LET files == create_folder_json_files(fcs, NoFiles)
    IN UNION {{<<name, files[name][i].folder_rel, files[name][i].index>> :
                  i \in 1..Len(files[name])} : name \in DOMAIN files}

PermutationsOf(seq) ==
    {[i \in 1..Len(seq) |-> seq[f[i]]] : f \in Permutations(1..Len(seq))}

\* C5: after a run, the grouping step gives every folder the same index on
\* every permutation of the accepted folder list.
IndexDeterminism ==
    pc = "done" =>
        \A q \in PermutationsOf(folder_counts) :
            IndexAssignment(q) = IndexAssignment(folder_counts)

\* C6: after a run, no manifest written by the run holds two entries with the
\* same folder_rel.
UniqueFolderRel ==
    pc = "done" =>
        \A name \in WrittenManifests :
            \A i, j \in 1..Len(processed.files[name]) :
                processed.files[name][i].folder_rel =
                    processed.files[name][j].folder_rel => i = j

\* C7: at every point of a run, no folder (by resolved absolute path) is held
\* under two keys of the mapping.
MappingDeduplicated ==
    \A i, j \in 1..Len(folder_dict) :
        NormPath(folder_dict[i].v) = NormPath(folder_dict[j].v) => i = j

\* C8: at every point of a run, every folder of the mapping directly contains
\* a file whose name ends, in any letter case, with .png or .webp.
MappedFoldersQualify ==
    \A i \in 1..Len(folder_dict) : contains_image_files(folder_dict[i].v)

\* C9: after a run, folders_processed holds only the files written by that
\* run.
NoStaleFiles ==
    pc = "done" => DOMAIN processed.files = written

\* C10: a run that follows a completed run on an unchanged filesystem, with
\* the same paths typed, leaves folders_processed as the first run left it.
DiscoveryIdempotent ==
    (pc = "done" /\ prev.valid /\ prev.inputs = inputs) => processed = prev.out

\* C10 witness: the second of two such runs has completed, after a path was
\* typed in each, and folders_processed holds a manifest.
DiscoveryIdempotentWitness ==
    /\ pc = "done"
    /\ prev.valid
    /\ prev.inputs = inputs
    /\ inputs # <<>>
    /\ WrittenManifests # {}

\* The entries of the manifests written by the current run.
WrittenEntries ==
    UNION {{processed.files[name][i] : i \in 1..Len(processed.files[name])} :
              name \in WrittenManifests}

\* The folders of the mapping that hold an image, as absolute paths.
AcceptedFolders ==
    {folder_dict[i].v : i \in {j \in 1..Len(folder_dict) :
                                   ImageFiles(folder_dict[j].v) # <<>>}}

\* Whether the image listed first in a folder cannot be opened.
FirstImageFails(f) == ~ImageOpen(f, ImageFiles(f)[1]).ok

\* C17: after a run, every folder of the mapping that holds an image has an
\* entry in a written manifest; every entry of a folder whose first image
\* cannot be opened carries width 0, height 0, has_alpha false and the
\* folder's real file count, and every entry of any other folder carries the
\* size and the alpha flag of its first image and its real file count.
DecodeFailureGraceful ==
    pc = "done" =>
        \A f \in AcceptedFolders :
            LET rel == RelPath(f, script_dir)
                mine == {e \in WrittenEntries : e.folder_rel = rel}
                img == ImageOpen(f, ImageFiles(f)[1])
            IN /\ mine # {}
               /\ \A e \in mine :
                     /\ e.file_count = count_image_files(f)
                     /\ IF FirstImageFails(f)
                        THEN e.width = 0 /\ e.height = 0 /\ ~e.has_alpha
                        ELSE /\ e.width = img.width
                             /\ e.height = img.height
                             /\ e.has_alpha = has_alpha_channel(img)

\* C17 witness: a run has completed over a folder whose first image cannot
\* be opened and a folder whose first image can.
DecodeFailureGracefulWitness ==
    /\ pc = "done"
    /\ \E f, g \in AcceptedFolders :
          /\ FirstImageFails(f)
          /\ ~FirstImageFails(g)
          /\ RelPath(f, script_dir) \in AcceptedRels
          /\ RelPath(g, script_dir) \in AcceptedRels

\* The digit suffixes N of the files <kind>_folders_N.json of folders_processed.
Suffixes(kind) ==
    {name.n : name \in {x \in DOMAIN processed.files :
                            x.kind = kind /\ IsDigit(x.n)}}

\* The suffixes N for which both manifests exist.
CommonSuffixes == Suffixes("main") \cap Suffixes("float")

\* C11: find_default_jsons returns None exactly when no N has both a
\* main_folders_N.json and a float_folders_N.json; otherwise it returns one
\* pair of existing files, a main and a float manifest with the same N, and
\* no common N is smaller than that N as a string.
ManifestPairing ==
    cpc = "found" =>
        IF CommonSuffixes = {}
        THEN json_pairs = <<>>
        ELSE /\ Len(json_pairs) = 1
             /\ Len(json_pairs[1].main) = 1
             /\ Len(json_pairs[1].float) = 1
             /\ LET m == json_pairs[1].main[1]
                    f == json_pairs[1].float[1]
                IN /\ m \in DOMAIN processed.files
                   /\ f \in DOMAIN processed.files
                   /\ m.kind = "main"
                   /\ f.kind = "float"
                   /\ m.n = f.n
                   /\ m.n \in CommonSuffixes
                   /\ \A n \in CommonSuffixes : ~StrLess(n, m.n)

\* C11 witness: find_default_jsons has returned the pair of "10" from a
\* directory that also holds the pair of "9".
ManifestPairingWitness ==
    /\ cpc = "found"
    /\ {<<"9">>, <<"1", "0">>} \subseteq CommonSuffixes
    /\ json_pairs # <<>>
    /\ json_pairs[1].main[1].n = <<"1", "0">>

\* C12: when Discovery's output is missing as process_files starts
\* (folders_processed absent, or without a pair of manifests), a call of
\* write_folder_list has returned before a manifest is parsed and before a
\* file is written to generated_img_lists; and every manifest parsed is a
\* file of folders_processed.
PrerequisiteFirst ==
    /\ (hist.missing /\ (hist.parsed # <<>> \/ hist.written # {}))
          => hist.completed >= 1
    /\ \A i \in 1..Len(hist.parsed) : hist.parsed[i] \in DOMAIN processed.files

\* C12 witness: folders_processed was absent, write_folder_list was called
\* and returned, and process_files has parsed manifests and written a file.
PrerequisiteFirstWitness ==
    /\ hist.missing
    /\ hist.calls # <<>>
    /\ hist.calls[1] = "call1"
    /\ hist.parsed # <<>>
    /\ hist.written # {}

\* The JSON files of folders_processed.
JsonNames == {x \in DOMAIN processed.files : x.kind \in {"main", "float"}}

\* The pair that holds the file f alone, under the key of its own prefix.
OwnBucket(f) ==
    IF f.kind = "main" THEN Pair(<<f>>, <<>>) ELSE Pair(<<>>, <<f>>)

OutputRecords ==
    UNION {{generated.files[name].folders[i] :
               i \in 1..Len(generated.files[name].folders)} :
              name \in DOMAIN generated.files}

\* A file name as the specification parses it: the digit run that ends the
\* name before its extension, the text before the run and the extension.
ParsedName(f) ==
    LET dots == {i \in 1..Len(f) : f[i] = "."}
        e == IF dots = {} THEN Len(f) + 1
             ELSE CHOOSE i \in dots : \A j \in dots : j <= i
        stem == SubSeq(f, 1, e - 1)
        k == CHOOSE k \in 0..Len(stem) :
                 /\ \A j \in (Len(stem) - k + 1)..Len(stem) : IsDigitChar(stem[j])
                 /\ k < Len(stem) => ~IsDigitChar(stem[Len(stem) - k])
    IN [prefix |-> SubSeq(stem, 1, Len(stem) - k),
        digits |-> SubSeq(stem, Len(stem) - k + 1, Len(stem)),
        suffix |-> SubSeq(f, e, Len(f))]

\* The qualifying files of a folder that end in a digit run, parsed.
MatchedFiles(folder_rel) ==
    LET files == ImageFiles(Join(script_dir, folder_rel))
    IN {p \in {ParsedName(files[i]) : i \in 1..Len(files)} : p.digits # <<>>}

\* The parsed file of the smallest index.
MinFile(folder_rel) ==
    CHOOSE p \in MatchedFiles(folder_rel) :
        \A q \in MatchedFiles(folder_rel) : IntOf(p.digits) <= IntOf(q.digits)

\* n written with zeros in front to the width w.
Pad(n, w) ==
    LET t == Str(n)
    IN [i \in 1..(IF Len(t) >= w THEN 0 ELSE w - Len(t)) |-> "0"] \o t

\* Every digit run of the folder is reproduced at the width of the run of
\* the file of the smallest index.
PaddingConsistent(folder_rel) ==
    \A p \in MatchedFiles(folder_rel) :
        Pad(IntOf(p.digits), Len(MinFile(folder_rel).digits)) = p.digits

\* C14: after a run of Compaction no record of the output is that of a folder
\* in which a digit run is not reproduced at the width of the run of the file
\* of the smallest index.
PaddingConsistency ==
    cpc = "done" =>
        \A r \in OutputRecords : PaddingConsistent(r.folder_rel)

\* C15: after a run of Compaction every record of the output holds an
\* image_pattern made of the prefix, the width of the digit run and the suffix
\* of the file of the smallest index, and max_file_index, the largest index
\* of the files of the folder that end in a digit run.
PatternInference ==
    cpc = "done" =>
        \A r \in OutputRecords :
            /\ {"image_pattern", "max_file_index"} \subseteq DOMAIN r
            /\ r.image_pattern =
                  [prefix |-> MinFile(r.folder_rel).prefix,
                   width |-> Len(MinFile(r.folder_rel).digits),
                   suffix |-> MinFile(r.folder_rel).suffix]
            /\ \E p \in MatchedFiles(r.folder_rel) :
                  r.max_file_index = IntOf(p.digits)
            /\ \A p \in MatchedFiles(r.folder_rel) :
                  IntOf(p.digits) <= r.max_file_index

RECURSIVE EntriesOf(_, _)
\* The entries of the manifests of json_pairs under the key bucket, in order.
EntriesOf(pairs, bucket) ==
    IF pairs = <<>> THEN <<>>
    ELSE LET paths == IF bucket = "main" THEN Head(pairs).main
                      ELSE Head(pairs).float
         IN (IF paths = <<>> THEN <<>> ELSE processed.files[paths[1]])
            \o EntriesOf(Tail(pairs), bucket)

\* The folder of an entry exists and holds an image.
Qualifies(e) ==
    LET d == script_dir \o e.folder_rel
    IN d \in DirSet /\ dirs[d] > 0

IndexAndFolder(seq) ==
    [i \in 1..Len(seq) |-> [index |-> seq[i].index, folder_rel |-> seq[i].folder_rel]]

\* The output file of a bucket holds one record for each entry of the bucket
\* whose folder exists and holds an image, in the order of the entries.
BucketIsolated(bucket, name) ==
    LET expected == IndexAndFolder(SelectSeq(EntriesOf(json_pairs, bucket), Qualifies))
    IN expected # <<>> =>
           /\ name \in DOMAIN generated.files
           /\ IndexAndFolder(generated.files[name].folders) = expected

\* C16: after a run of Compaction every entry of a parsed manifest whose
\* folder exists and holds an image has exactly one record in the output
\* file of its bucket, whatever the other entries of the manifest are; and
\* the process never ends early once the manifests are parsed, unless a file
\* cannot be written.
FolderFailuresIsolated ==
    /\ cpc = "done" =>
          /\ BucketIsolated("main", "main_images.json")
          /\ BucketIsolated("float", "float_images.json")
    /\ (cpc = "ended" /\ hist.parsed # <<>>) => hist.cause = "output"

\* C16 witness: a run has completed in which a manifest held an entry whose
\* folder is gone or holds no image, followed by an entry that has a record
\* in the output.
FolderFailuresIsolatedWitness ==
    /\ cpc = "done"
    /\ LET es == EntriesOf(json_pairs, "main")
       IN \E i, j \in 1..Len(es) :
             /\ i < j
             /\ ~Qualifies(es[i])
             /\ Qualifies(es[j])
             /\ \E r \in OutputRecords : r.folder_rel = es[j].folder_rel

\* C18: after a run of Compaction generated_img_lists holds main_images.json
\* and float_images.json, each of the form {"folders": [...]}, and for each
\* a gzip copy whose content is that of the plain file.
OutputSet ==
    cpc = "done" =>
        \A name \in {"main_images.json", "float_images.json"} :
            /\ name \in DOMAIN generated.files
            /\ DOMAIN generated.files[name] = {"folders"}
            /\ \E gz \in DOMAIN generated.files :
                  /\ gz # name
                  /\ generated.files[gz] = generated.files[name]

\* C19: the wipe of generated_img_lists removes no file written by the
\* current run, no file is written before the wipe, and once the run is
\* complete generated_img_lists holds exactly the files the run has written.
WipeBeforeWrite ==
    [][/\ hist.written \subseteq DOMAIN generated'.files
       /\ hist'.written # hist.written =>
             cpc \in {"writeMain", "writeFloat"}
       /\ hist'.wiped # hist.wiped => (cpc = "wipe" /\ hist.written = {})
       /\ cpc' = "done" => DOMAIN generated'.files = hist'.written
      ]_vars

\* C19 witness: a run has completed that removed the files an earlier run
\* left and wrote a file of its own.
WipeBeforeWriteWitness ==
    /\ cpc = "done"
    /\ hist.wiped # {}
    /\ hist.written # {}
    /\ hist.written # hist.wiped

\* C20: the process ends early only because a directory or a file of the
\* output cannot be created or written, then with a status other than 0;
\* and a run is never completed when they cannot be.
TerminationOnlyOnOutputFailure ==
    /\ cpc = "ended" => (hist.cause = "output" /\ hist.exit # "0")
    /\ cpc = "done" => writable

\* The records of an output file, or none when the file was not written.
RecordsOf(name) ==
    IF name \in DOMAIN generated.files THEN generated.files[name].folders
    ELSE <<>>

\* Every record of the output file of a bucket carries the index of an entry
\* of the bucket's manifests with the record's folder_rel.
IndexFromManifest(bucket, name) ==
    LET es == EntriesOf(json_pairs, bucket)
        rs == RecordsOf(name)
    IN \A i \in 1..Len(rs) :
          \E j \in 1..Len(es) :
             /\ NormRel(es[j].folder_rel) = rs[i].folder_rel
             /\ es[j].index = rs[i].index

\* C21: after a run of Compaction every record of main_images.json and of
\* float_images.json carries the index its folder_rel has in the manifest
\* the record was made from, wherever the record stands in the output.
IndexPreservation ==
    cpc = "done" =>
       /\ IndexFromManifest("main", "main_images.json")
       /\ IndexFromManifest("float", "float_images.json")

\* C21 witness: a run has completed with a record whose index is not its
\* place in the output file.
IndexPreservationWitness ==
    /\ cpc = "done"
    /\ \E name \in DOMAIN generated.files :
          \E i \in 1..Len(generated.files[name].folders) :
             generated.files[name].folders[i].index # i

\* C22: during a run of Discovery in which the images directory yields no
\* folder, folder_locations.txt is loaded when it exists, the lines whose path
\* is not an existing directory are left out without ending the run, and the
\* prompt for paths is reached only when folder_locations.txt is absent.
FallbackOrder ==
    /\ (pc = "prompt" /\ inputs = <<>>) =>
          /\ folder_dict = (IF locations.exists
                            THEN LoadLocations(<<>>, locations.lines)
                            ELSE <<>>)
          /\ \A i \in 1..Len(folder_dict) : IsDir(folder_dict[i].v)
    /\ pc = "prompt" => ~locations.exists

\* The bands of a mode.
Bands(mode) ==
    CASE mode = "1" -> <<"1">>
      [] mode = "L" -> <<"L">>
      [] mode = "LA" -> <<"L", "A">>
      [] mode = "I;16" -> <<"I">>
      [] mode = "P" -> <<"P">>
      [] mode = "RGB" -> <<"R", "G", "B">>
      [] mode = "RGBA" -> <<"R", "G", "B", "A">>

\* The mode has a band that holds alpha.
ExplicitAlpha(mode) == \E i \in 1..Len(Bands(mode)) : Bands(mode)[i] = "A"

\* C23: has_alpha_channel returns true exactly when the mode of the image has
\* an alpha band, or the mode is the palette mode and the image's info holds
\* a transparency entry; for every other image it returns false.
AlphaDetection ==
    alpha.returned =>
       (alpha.value <=>
           \/ ExplicitAlpha(image.mode)
           \/ image.mode = "P" /\ "transparency" \in image.info)

\* C23 witness: has_alpha_channel has returned true for a palette image with
\* a transparency entry.
AlphaDetectionWitness ==
    /\ alpha.returned
    /\ alpha.value
    /\ image.mode = "P"
    /\ "transparency" \in image.info

RECURSIVE Runs(_)
\* A name cut into its longest runs of digits and of other characters.
Runs(s) ==
    IF s = <<>> THEN <<>>
    ELSE LET k == CHOOSE k \in 1..Len(s) :
                     /\ \A i \in 1..k : IsDigitChar(s[i]) = IsDigitChar(s[1])
                     /\ k < Len(s) => IsDigitChar(s[k + 1]) # IsDigitChar(s[1])
         IN <<SubSeq(s, 1, k)>> \o Runs(SubSeq(s, k + 1, Len(s)))

\* Two runs are the same number, or the same text whatever the case.
RunSame(x, y) ==
    /\ IsDigit(x) = IsDigit(y)
    /\ IF IsDigit(x) THEN IntOf(x) = IntOf(y) ELSE Lower(x) = Lower(y)

\* Run x comes before run y: a smaller number, a number before a text, or a
\* text that is smaller whatever the case.
RunBefore(x, y) ==
    IF IsDigit(x) /\ IsDigit(y) THEN IntOf(x) < IntOf(y)
    ELSE IF IsDigit(x) # IsDigit(y) THEN IsDigit(x)
    ELSE StrLess(Lower(x), Lower(y))

\* The runs ra come strictly before the runs rb in natural order.
RunsBefore(ra, rb) ==
    \E i \in 1..Len(rb) :
       /\ \A j \in 1..(i - 1) : j <= Len(ra) /\ RunSame(ra[j], rb[j])
       /\ \/ i = Len(ra) + 1
          \/ i <= Len(ra) /\ RunBefore(ra[i], rb[i])

\* Python can compare two sort keys: wherever both keys have an element, the
\* two elements are numbers or the two are texts.
Comparable(ka, kb) ==
    \A j \in 1..Len(ka) : j <= Len(kb) => ka[j].num = kb[j].num

\* The image_list of a record holds each image file of the record's folder
\* once, no name before a name that comes before it in natural order.
NaturallyListed(r) ==
    LET files == ImageFiles(script_dir \o r.folder_rel)
        n == Len(r.image_list)
        names == [i \in 1..n |-> r.image_list[i][Len(r.image_list[i])]]
        runs_of == [i \in 1..n |-> Runs(names[i])]
        keys == [i \in 1..n |-> natural_sort_key(names[i])]
    IN /\ n = Len(files)
       /\ \A i \in 1..n :
             \E j \in 1..n : r.image_list[j] = r.folder_rel \o <<files[i]>>
       /\ \A i \in 1..n :
             \A j \in (i + 1)..n :
                /\ ~RunsBefore(runs_of[j], runs_of[i])
                /\ Comparable(keys[i], keys[j])
                /\ Comparable(keys[j], keys[i])

\* C24: after a run of Compaction the image_list of every record holds
\* exactly the image files of the record's folder, each once, in natural
\* order (digit runs by value, other text whatever the case), and the sort
\* keys of any two of the names can be compared.
NaturalOrdering == cpc = "done" => \A r \in OutputRecords : NaturallyListed(r)

\* C24 witness: a run has completed with a record that lists frame_2.png
\* before Frame_10.png, which the folder lists the other way round.
NaturalOrderingWitness ==
    /\ cpc = "done"
    /\ \E r \in OutputRecords :
          LET files == ImageFiles(script_dir \o r.folder_rel)
          IN /\ Len(files) >= 2
             /\ files[1] = S_Frame_10 \o <<".", "p", "n", "g">>
             /\ r.image_list[Len(r.image_list)] = r.folder_rel \o <<files[1]>>
             /\ r.image_list[1] # r.folder_rel \o <<files[1]>>

\* The tasks that have ended without raising.
TasksCompleted == {i \in 1..Len(queue) : queue[i].status = "done"}

\* A thread is between the read and the write of processed_files only while
\* it holds counter_lock, and processed_files counts the tasks that have
\* stored their increment.
IncrementsUnderLock ==
    /\ \A t \in DOMAIN workers :
          workers[t].pc \in {"load", "store", "release"} => counter_lock = t
    /\ processed_files =
          Cardinality(TasksCompleted
                      \cup {workers[t].task : t \in
                               {u \in DOMAIN workers : workers[u].pc = "release"}})

\* C25: in image_resize a thread reads and writes processed_files only while
\* it holds counter_lock; once the pool has shut down processed_files is the
\* number of tasks that ended without raising; and processed_files never
\* exceeds total_files.
SharedCounter ==
    /\ IncrementsUnderLock
    /\ walk.pc = "printed" => processed_files = Cardinality(TasksCompleted)
    /\ walk.pc # "idle" => processed_files <= total_files

\* C26: a run of process_files calls write_folder_list at most once, whether
\* from the check of the directory, from the check of the default pair or
\* from choose_file.
DiscoveryAtMostOnce == Len(hist.calls) <= 1

\* process_files has its pair from find_default_jsons: choose_file was not
\* entered.
DefaultFound ==
    /\ cpc \in {"check", "wipe", "process", "writeMain", "writeFloat", "done"}
    /\ available = <<>>
    /\ \A i \in 1..Len(hist.calls) : hist.calls[i] # "call3"

\* Every record of an output file is made from an entry of one manifest.
RecordsFrom(name, manifest) ==
    LET es == processed.files[manifest]
        rs == RecordsOf(name)
    IN \A i \in 1..Len(rs) :
          \E j \in 1..Len(es) :
             /\ NormRel(es[j].folder_rel) = rs[i].folder_rel
             /\ es[j].index = rs[i].index

\* C27: when find_default_jsons has found a pair, process_files works on that
\* one pair, a main and a float manifest of the same count, and after the
\* run every record of main_images.json is made from an entry of that main
\* manifest and every record of float_images.json from an entry of that
\* float manifest, so that a folder of another manifest is in neither.
SinglePairOnly ==
    DefaultFound =>
       /\ Len(json_pairs) = 1
       /\ Len(json_pairs[1].main) = 1
       /\ Len(json_pairs[1].float) = 1
       /\ json_pairs[1].main[1].kind = "main"
       /\ json_pairs[1].float[1].kind = "float"
       /\ json_pairs[1].main[1].n = json_pairs[1].float[1].n
       /\ cpc = "done" =>
             /\ RecordsFrom("main_images.json", json_pairs[1].main[1])
             /\ RecordsFrom("float_images.json", json_pairs[1].float[1])

\* C27 witness: a run on the default pair has completed and has written
\* main_images.json, while a main manifest of another count holds a folder
\* that exists and holds images and that is not in main_images.json.
SinglePairOnlyWitness ==
    /\ cpc = "done"
    /\ DefaultFound
    /\ "main_images.json" \in DOMAIN generated.files
    /\ \E f \in JsonNames :
          /\ f.kind = "main"
          /\ f # json_pairs[1].main[1]
          /\ \E j \in 1..Len(processed.files[f]) :
                /\ Qualifies(processed.files[f][j])
                /\ \A i \in 1..Len(RecordsOf("main_images.json")) :
                      RecordsOf("main_images.json")[i].folder_rel
                         # NormRel(processed.files[f][j].folder_rel)

\* The folders the lines of folder_locations.txt add: the paths of the lines
\* that parse and name an existing directory.
LocationFolders ==
    IF locations.exists
    THEN {Join(script_dir, parse_line(locations.lines[i]).folder) :
             i \in {j \in 1..Len(locations.lines) :
                      /\ parse_line(locations.lines[j]).folder # <<>>
                      /\ IsDir(Join(script_dir,
                                    parse_line(locations.lines[j]).folder))}}
    ELSE {}

\* C28: a step of write_folder_list that adds folders to the mapping keeps
\* every folder added before: after folder_locations.txt is loaded the
\* mapping holds the folder of every line that names an existing directory,
\* whatever the keys of the lines; a path typed at the prompt removes no
\* folder from the mapping, and an invalid one leaves the mapping as it was.
MappingNeverOverwritten ==
    [][/\ (pc # "prompt" /\ pc' = "prompt") =>
             \A f \in LocationFolders : InValues(folder_dict', f)
       /\ (pc = "prompt" /\ pc' = "prompt") =>
             /\ \A i \in 1..Len(folder_dict) :
                   InValues(folder_dict', folder_dict[i].v)
             /\ ~IsDir(AbsPath(inputs'[Len(inputs')])) =>
                   folder_dict' = folder_dict
      ]_vars

\* C29: in one run of a batch converter no two tasks handed to the worker
\* pool have the same output path, and no output file is written by two
\* tasks.
OutputPathsDistinct ==
    \A i, j \in 1..Len(tasks) :
        (i < j /\ tasks[i].status # "prepared" /\ tasks[j].status # "prepared")
            => /\ tasks[i].output_path # tasks[j].output_path
               /\ ~(/\ tasks[i].status = "saved"
                    /\ tasks[j].status = "saved"
                    /\ tasks[i].output_path = tasks[j].output_path)



====
